---- MODULE Spec2Model ----
(***************************************************************************)
(* Model of the bibp reference downloader (src/downloader.py) and of the   *)
(* configuration it reads (src/config_template.py).                        *)
(*                                                                         *)
(* Two state machines share this module:                                   *)
(*   Spec    download_references_parallel: the thread pool, one            *)
(*           process_reference call per citation, the result collection    *)
(*           loop and the summary, over one or two runs on the same        *)
(*           output directory.                                             *)
(*   SpecRL  RateLimiter.acquire called by several threads on one          *)
(*           limiter, with a discrete clock.                               *)
(***************************************************************************)
EXTENDS Integers, Sequences, FiniteSets, TLC

\* ------------------------------------------------------------------------
\* Bounds of the model
\* ------------------------------------------------------------------------
NRefs == 2          \* longest citation list
MaxRuns == 2        \* runs of download_references_parallel on one directory
MaxEnabled == 2     \* services enabled at once, for a list of one citation
MaxPoolEnabled == 1 \* for a list of two, services past this priority are off;
                    \* one service fewer for each further citation
MaxThreads == 2     \* largest configured max_threads
NCallers == 2       \* threads calling acquire on one limiter
MaxAcquires == 5    \* acquire calls made on the limiter
MaxTime == 3        \* last tick of the clock
MaxDepth == 2       \* nested extract_references calls the interpreter admits
NFiles == 2         \* PDF files handed to one ProcessingThread

\* ------------------------------------------------------------------------
\* Configuration (BibPConfig)
\* ------------------------------------------------------------------------
ApiNames ==
  {"arxiv", "unpaywall", "openalex", "semantic_scholar", "crossref", "pubmed", "core"}

\* BibPConfig.apis: the priority of each service (lower = tried first)
priority ==
  [a \in ApiNames |->
     CASE a = "arxiv" -> 1
       [] a = "unpaywall" -> 2
       [] a = "openalex" -> 3
       [] a = "semantic_scholar" -> 4
       [] a = "crossref" -> 5
       [] a = "pubmed" -> 6
       [] a = "core" -> 7]

\* ReferenceProcessor.source_handlers: the services that have a handler
source_handlers == ApiNames

\* sorted(enabled.items(), key=priority): the service of least priority first
RECURSIVE SortByPriority(_)
SortByPriority(S) ==
  IF S = {} THEN << >>
  ELSE LET m == CHOOSE a \in S : \A b \in S : priority[a] <= priority[b]
       IN  <<m>> \o SortByPriority(S \ {m})

\* the same selection, greatest priority value first
RECURSIVE SortByPriorityReversed(_)
SortByPriorityReversed(S) ==
  IF S = {} THEN << >>
  ELSE LET m == CHOOSE a \in S : \A b \in S : priority[a] >= priority[b]
       IN  <<m>> \o SortByPriorityReversed(S \ {m})

\* a slip: the sort called with reverse=True
get_enabled_apis_reversed(en) == SortByPriorityReversed(en)

\* BibPConfig.get_enabled_apis: the enabled services, sorted by priority
get_enabled_apis(en) == SortByPriority(en)

\* ------------------------------------------------------------------------
\* Citations and the source handlers
\* ------------------------------------------------------------------------
\* The citation records fed to the downloader, by the fields that decide a
\* handler's path:
\*   "arxiv"  title and an arXiv id in the free text
\*   "doi"    title and a well-formed DOI
\*   "title"  title only
\*   "raw"    free text only (no title, DOI or arXiv id)
\*   "bad"    a title holding a lone surrogate, which str.encode() rejects
RefKinds == {"arxiv", "doi", "title", "raw", "bad"}

\* the kinds drawn when the list holds more than one citation
PoolKinds == {"arxiv", "doi", "bad"}

\* ReferenceProcessor._extract_reference_info, on the fields the handlers read
extract_reference_info(k) ==
  [title |-> k \in {"arxiv", "doi", "title", "bad"},
   doi   |-> k = "doi",
   arxiv |-> k = "arxiv",
   encodable |-> k # "bad"]

\* The text of the fields _generate_filename reads, as sequences of
\* characters, for each kind of citation (the "bad" title never gets past
\* encode())
ref_text(k) ==
  CASE k = "arxiv" ->
         [title |-> <<"N", "e", "t", ":", " ", "a">>, doi |-> << >>,
          arxiv_id |-> <<"1", "7", "0", "6">>, raw_reference |-> <<"a", "X">>]
    [] k = "doi" ->
         [title |-> <<"N", "e", "t", " ", "a">>,
          doi |-> <<"1", "0", ".", "1", "/", "x">>,
          arxiv_id |-> << >>, raw_reference |-> << >>]
    [] k = "title" ->
         [title |-> <<"N", "e", "t", "_", "a">>, doi |-> << >>,
          arxiv_id |-> << >>, raw_reference |-> << >>]
    [] k = "raw" ->
         [title |-> << >>, doi |-> << >>, arxiv_id |-> << >>,
          raw_reference |-> <<"S", "m", "i", "t", "h", " ", " ", "2", "0">>]
    [] k = "bad" ->
         [title |-> <<"C", "a", "f", "?">>, doi |-> << >>, arxiv_id |-> << >>,
          raw_reference |-> << >>]

\* BibPConfig.max_filename_length
max_filename_length == 150

\* the characters re.sub(r'[<>:"/\\|?*\x00-\x1F]', '', title) removes
ForbiddenChars == {"<", ">", ":", "\"", "/", "\\", "|", "?", "*"}

RemoveForbidden(t) == SelectSeq(t, LAMBDA c : c \notin ForbiddenChars)

\* str.strip(), then re.sub(r'\s+', '_', ...): every run of blanks becomes
\* one underscore
StripLeft(t) ==
  LET inked == {j \in 1..Len(t) : t[j] # " "}
  IN  IF inked = {} THEN << >>
      ELSE SubSeq(t, CHOOSE j \in inked : \A k \in inked : j <= k, Len(t))

StripRight(t) ==
  LET inked == {j \in 1..Len(t) : t[j] # " "}
  IN  IF inked = {} THEN << >>
      ELSE SubSeq(t, 1, CHOOSE j \in inked : \A k \in inked : k <= j)

\* the first blank of every run becomes "_", the rest of the run is dropped
SquashBlanks(t) ==
  IF t = << >> THEN << >>
  ELSE LET kept == SelectSeq([j \in 1..Len(t) |-> j],
                             LAMBDA j : t[j] # " " \/ j = 1 \/ t[j - 1] # " ")
       IN  [k \in 1..Len(kept) |->
              IF t[kept[k]] = " " THEN "_" ELSE t[kept[k]]]

\* t[:n]
Prefix(t, n) == SubSeq(t, 1, IF Len(t) < n THEN Len(t) ELSE n)

\* the decimal digits of n
RECURSIVE Digits(_)
Digits(n) ==
  LET d == <<"0", "1", "2", "3", "4", "5", "6", "7", "8", "9">>[(n % 10) + 1]
  IN  IF n < 10 THEN <<d>> ELSE Digits(n \div 10) \o <<d>>

\* f"{index:03d}": the digits, padded with zeros on the left to three places
Pad3(n) ==
  LET ds == Digits(n)
  IN  IF Len(ds) >= 3 THEN ds ELSE [j \in 1..(3 - Len(ds)) |-> "0"] \o ds

\* a number for each character, for the digest
CharCode(c) ==
  CASE c \in {"0", "1", "2", "3", "4", "5", "6", "7", "8", "9"} ->
         CHOOSE n \in 0..9 : Digits(n) = <<c>>
    [] c = "|" -> 10
    [] c = "/" -> 11
    [] c = ":" -> 12
    [] c = " " -> 13
    [] c = "_" -> 14
    [] OTHER -> 15

\* the sum of CharCode(t[j]) * 3^(j-1) over the positions lo..hi, modulo 16
\* (the powers of 3 modulo 16 repeat with period 4), by halving
RECURSIVE ChecksumRange(_, _, _)
ChecksumRange(t, lo, hi) ==
  IF lo > hi THEN 0
  ELSE IF lo = hi
       THEN (CharCode(t[lo]) * (<<1, 3, 9, 11>>)[((lo - 1) % 4) + 1]) % 16
       ELSE LET mid == (lo + hi) \div 2
            IN  (ChecksumRange(t, lo, mid) + ChecksumRange(t, mid + 1, hi)) % 16

Checksum(t) == ChecksumRange(t, 1, Len(t))

\* hashlib.sha256(content.encode()).hexdigest()[:8]: eight hexadecimal
\* digits, of which seven are fixed and the last is one digit of a checksum;
\* a function of the content alone, under which different contents can collide
sha256_8(content) ==
  <<"0", "0", "0", "0", "0", "0", "0">>
  \o <<(<<"0", "1", "2", "3", "4", "5", "6", "7", "8", "9", "a", "b", "c",
          "d", "e", "f">>)[Checksum(content) + 1]>>

\* f"ref_{index:03d}_{clean_title}_{file_hash}.pdf"
FormatName(index_text, clean_title, file_hash) ==
  <<"r", "e", "f", "_">> \o index_text \o <<"_">> \o clean_title \o <<"_">>
  \o file_hash \o <<".", "p", "d", "f">>

\* What the external service does during one handler invocation: it answers
\* ("ok"), the connection fails ("network"), it answers with an HTTP error
\* status ("http"), or its body cannot be parsed ("malformed"); "noclient" is
\* a client library that did not initialise
Faults == {"network", "http", "malformed"}

\* SourceResult as a handler returns it, with the limiters it acquired (lim),
\* the services it called over the network (net) and what the service did
\* during the invocation (fault)
SR(name, ok, err, netS, limS, flt) ==
  [source_name |-> name, success |-> ok, url |-> ok, error |-> err,
   net |-> netS, lim |-> limS, fault |-> flt]

\* APIManager.rate_limit: acquires only when the service has a limiter, and
\* APIManager.__init__ builds limiters for the enabled services only
rate_limit(api, en) == {api} \cap en

\* a handler whose every request is inside `try: ... except Exception as e:
\* result.error = str(e)` and is followed by raise_for_status() and .json():
\* found, not found, or the exception text of any fault
Guarded(name, netS, limS) ==
  {SR(name, TRUE, "", netS, limS, "ok"), SR(name, FALSE, "", netS, limS, "ok")}
  \cup {SR(name, FALSE, "exception", netS, limS, f) : f \in Faults}

\* ReferenceProcessor._handle_arxiv: no network call, succeeds iff an id exists
handle_arxiv(info) ==
  {SR("arxiv", info.arxiv, "", {}, {}, "ok")}

\* ReferenceProcessor._handle_unpaywall(ref_info, doi)
handle_unpaywall(info, doi, en) ==
  IF ~(doi \/ info.doi)
  THEN {SR("unpaywall", FALSE, "", {}, {}, "ok")}
  ELSE Guarded("unpaywall", {"unpaywall"}, rate_limit("unpaywall", en))

\* ReferenceProcessor._handle_openalex: the DOI lookup only tests
\* status_code == 200, so an HTTP error status there is passed over in
\* silence and the title search follows
handle_openalex(info, en) ==
  IF info.doi \/ info.title
  THEN Guarded("openalex", {"openalex"}, rate_limit("openalex", en))
       \cup (IF info.doi
             THEN {SR("openalex", FALSE, "", {"openalex"},
                      rate_limit("openalex", en), "http")}
             ELSE {})
  ELSE {SR("openalex", FALSE, "", {}, rate_limit("openalex", en), "ok")}

\* ReferenceProcessor._handle_semantic_scholar: both client calls sit in
\* `try: ... except Exception: pass`, so a fault leaves no error text
handle_semantic_scholar(info, en, cl) ==
  IF "semantic_scholar" \notin cl
  THEN {SR("semantic_scholar", FALSE, "client not available", {}, {}, "noclient")}
  ELSE IF info.doi \/ info.title
  THEN {SR("semantic_scholar", TRUE, "", {"semantic_scholar"},
           rate_limit("semantic_scholar", en), "ok"),
        SR("semantic_scholar", FALSE, "", {"semantic_scholar"},
           rate_limit("semantic_scholar", en), "ok")}
       \cup {SR("semantic_scholar", FALSE, "", {"semantic_scholar"},
                rate_limit("semantic_scholar", en), f) : f \in Faults}
  ELSE {SR("semantic_scholar", FALSE, "", {}, rate_limit("semantic_scholar", en),
           "ok")}

\* ReferenceProcessor._handle_crossref: with a DOI it delegates to
\* _handle_unpaywall; otherwise it searches by title and tries each DOI found.
\* Only the success and the url of the delegate's result are copied.
handle_crossref(info, en, cl) ==
  IF "crossref" \notin cl
  THEN {SR("crossref", FALSE, "client not available", {}, {}, "noclient")}
  ELSE IF info.doi
  THEN {SR("crossref", u.success, "", u.net, rate_limit("crossref", en) \cup u.lim,
           u.fault) :
           u \in handle_unpaywall(info, TRUE, en)}
  ELSE IF info.title
  THEN {SR("crossref", FALSE, "exception", {"crossref"}, rate_limit("crossref", en),
           f) : f \in Faults}
       \cup
       {SR("crossref", FALSE, "", {"crossref"}, rate_limit("crossref", en), "ok")}
       \cup
       {SR("crossref", u.success, "", {"crossref"} \cup u.net,
           rate_limit("crossref", en) \cup u.lim, u.fault) :
           u \in handle_unpaywall(info, TRUE, en)}
  ELSE {SR("crossref", FALSE, "", {}, rate_limit("crossref", en), "ok")}

\* ReferenceProcessor._handle_pubmed: the esearch request is followed by
\* raise_for_status(), the elink request is not
handle_pubmed(info, en) ==
  IF info.doi \/ info.title
  THEN Guarded("pubmed", {"pubmed"}, rate_limit("pubmed", en))
       \cup {SR("pubmed", FALSE, "", {"pubmed"}, rate_limit("pubmed", en), "http")}
  ELSE {SR("pubmed", FALSE, "", {}, rate_limit("pubmed", en), "ok")}

\* ReferenceProcessor._handle_core
handle_core(info, en) ==
  IF info.title
  THEN Guarded("core", {"core"}, rate_limit("core", en))
  ELSE {SR("core", FALSE, "", {}, rate_limit("core", en), "ok")}

\* self.source_handlers[api_name](ref_info)
CallHandler(api, info, en, cl) ==
  CASE api = "arxiv" -> handle_arxiv(info)
    [] api = "unpaywall" -> handle_unpaywall(info, FALSE, en)
    [] api = "openalex" -> handle_openalex(info, en)
    [] api = "semantic_scholar" -> handle_semantic_scholar(info, en, cl)
    [] api = "crossref" -> handle_crossref(info, en, cl)
    [] api = "pubmed" -> handle_pubmed(info, en)
    [] api = "core" -> handle_core(info, en)

\* BibPConfig.min_pdf_size
min_pdf_size == 1000

\* no file at a path
NoFile == -1

\* sizes a transfer can reach: one byte under the minimum, and the minimum
TransferSizes == {min_pdf_size - 1, min_pdf_size}

\* What the network can do during one _download_pdf call:
\*   "http"    session.get or raise_for_status raises before the file is opened
\*   "stream"  iter_content raises once open(save_path, 'wb') has created the
\*             file, before a chunk is written
\*   "done"    the transfer completes with `size` bytes
DownloadOutcomes ==
  {[kind |-> "http", size |-> 0], [kind |-> "stream", size |-> 0]}
  \cup [kind : {"done"}, size : TransferSizes]

\* _download_pdf up to the end of the chunk loop: the file at save_path and
\* the exception raised, if any
transfer(o) ==
  CASE o.kind = "http" -> [file |-> NoFile, raised |-> "HTTPError"]
    [] o.kind = "stream" -> [file |-> o.size, raised |-> "ConnectionError"]
    [] o.kind = "done" -> [file |-> o.size, raised |-> "None"]

\* a slip: the undersized file is reported but not unlinked
validate_nounlink(size) ==
  IF size < min_pdf_size
  THEN [file |-> size, raised |-> "ValueError"]
  ELSE [file |-> size, raised |-> "None"]

\* _download_pdf after the chunk loop: an undersized file is unlinked, and
\* the f-string of the ValueError then calls save_path.stat() on the path
\* just unlinked, so the exception that leaves is FileNotFoundError
validate(size) ==
  IF size < min_pdf_size
  THEN [file |-> NoFile, raised |-> "FileNotFoundError"]
  ELSE [file |-> size, raised |-> "None"]

\* a slip: exists() asked of a path that is never there
path_exists_never(f) == FALSE

\* save_path.exists()
path_exists(f) == f # NoFile

\* ------------------------------------------------------------------------
\* State
\* ------------------------------------------------------------------------
Refs == 1..NRefs

VARIABLES
  enabled,       \* config.apis: the services with enabled = True
  clients,       \* api_manager.clients: the client libraries that initialised
  max_threads,   \* config.max_threads
  nrefs,         \* len(references)
  refs,          \* the citation list; "unread" until a worker first reads it
  files,         \* the output directory: size of the file at each target path
  file0,         \* the file at the target path when process_reference began
  run,           \* which run of download_references_parallel this is
  prev,          \* what the previous run reported for each citation
  prevname,      \* the filename the previous run gave each citation
  filename,      \* ReferenceResult.filename (empty: not constructed yet)
  fut,           \* state of each submitted future
  pc,            \* position of each process_reference call
  status,        \* ReferenceResult.status ("none": not constructed yet)
  source,        \* ReferenceResult.source
  url,           \* ReferenceResult.url is set
  error,         \* ReferenceResult.error
  tried,         \* ReferenceResult.sources_tried
  pos,           \* the loop variable of `for api_name in enabled_apis`
  net,           \* services this process_reference call reached over the network
  lim,           \* rate limiters this process_reference call acquired
  collected,     \* futures the as_completed loop has consumed
  results,       \* the list download_references_parallel returns
  successful_downloads,
  sources_used,
  phase          \* "pool": inside the executor block, "returned": after return

ovars == <<enabled, clients, max_threads, nrefs, refs, files, file0, run, prev,
           prevname, filename,
           fut, pc, status, source, url, error, tried, pos, net, lim, collected,
           results, successful_downloads, sources_used, phase>>

\* RateLimiter state (one limiter) and its callers, used by SpecRL
VARIABLES
  rate,          \* RateLimiter.rate, in tokens per second
  burst_size,    \* RateLimiter.burst_size
  tokens,        \* RateLimiter.tokens, in units of 1/TicksPerSecond token
  last_refill,   \* RateLimiter.last_refill, in ticks
  lock,          \* RateLimiter.lock: 0 when free, else the thread holding it
  clock,         \* time.time(), in ticks
  rpc,           \* position of each caller inside acquire
  rnow,          \* each caller's local `now`
  wake,          \* when each sleeping caller's time.sleep may return
  log            \* the acquire calls that returned, in order of return

rlvars == <<rate, burst_size, tokens, last_refill, lock, clock, rpc, rnow,
            wake, log>>

\* ProcessingThread state (src/gui.py), used by SpecGUI
VARIABLES
  should_stop,   \* ProcessingThread.should_stop
  file_idx,      \* the loop variable of `for file_idx, pdf_path in enumerate(...)`
  gpc            \* position of ProcessingThread.run ("idle": no thread)

guivars == <<should_stop, file_idx, gpc>>

\* extract_references state (src/extractor.py), used by SpecEx
VARIABLES
  grobid_enabled, \* config.grobid_enabled
  is_alive,       \* grobid_client.is_alive (FALSE also when there is no client)
  rec,            \* the citation the PDF holds
  stack,          \* the extract_references calls in progress, outermost first
  running,        \* the backends at work
  quality,        \* the score last computed by calculate_quality_score
  filtered        \* the citation last given to _is_valid_reference, with the answer

exvars == <<grobid_enabled, is_alive, rec, stack, running, quality, filtered>>

\* One citation record taken through the normalisation functions and
\* _generate_filename, used by SpecFn
VARIABLES
  cite,           \* the citation record as it comes in
  cite_index,     \* the citation's position in the list
  max_len,        \* config.max_filename_length
  norm_info,      \* what _extract_reference_info returned (empty: not called)
  processed,      \* what _post_process_reference returned (empty: not called)
  fname           \* what _generate_filename returned (empty: not called)

fnvars == <<cite, cite_index, max_len, norm_info, processed, fname>>

vars == <<ovars, rlvars, guivars, exvars, fnvars>>

\* a slip: the index left out of the name and of the digest
generate_filename_noindex(info, index) ==
  LET title == IF info.title # << >> THEN info.title ELSE info.raw_reference
      clean_title == IF title # << >>
                     THEN Prefix(SquashBlanks(StripRight(StripLeft(
                                   RemoveForbidden(title)))), 60)
                     ELSE <<"r", "e", "f", "e", "r", "e", "n", "c", "e">>
      file_hash == sha256_8(info.title \o <<"|">> \o info.doi \o <<"|">>
                            \o info.arxiv_id)
  IN  FormatName(<<"0", "0", "0">>, clean_title, file_hash)

\* a slip: a name that steps aside when the output directory already holds a
\* file for the citation
generate_filename_fresh(info, index) ==
  LET title == IF info.title # << >> THEN info.title ELSE info.raw_reference
      clean_title == IF title # << >>
                     THEN Prefix(SquashBlanks(StripRight(StripLeft(
                                   RemoveForbidden(title)))), 60)
                     ELSE <<"r", "e", "f", "e", "r", "e", "n", "c", "e", "_">>
                          \o Digits(index)
      file_hash == sha256_8(info.title \o <<"|">> \o info.doi \o <<"|">>
                            \o info.arxiv_id \o <<"|">> \o Digits(index))
  IN  FormatName(Pad3(index),
                 clean_title \o (IF files[index] # NoFile THEN <<"_", "1">>
                                 ELSE << >>),
                 file_hash)

\* ReferenceProcessor._generate_filename, with config.max_filename_length
\* as the parameter limit
generate_filename_within(info, index, limit) ==
  LET title == IF info.title # << >> THEN info.title ELSE info.raw_reference
      clean_title == IF title # << >>
                     THEN Prefix(SquashBlanks(StripRight(StripLeft(
                                   RemoveForbidden(title)))), 60)
                     ELSE <<"r", "e", "f", "e", "r", "e", "n", "c", "e", "_">>
                          \o Digits(index)
      file_hash == sha256_8(info.title \o <<"|">> \o info.doi \o <<"|">>
                            \o info.arxiv_id \o <<"|">> \o Digits(index))
      name == FormatName(Pad3(index), clean_title, file_hash)
  IN  IF Len(name) > limit
      THEN LET max_title_len ==
                 limit - Len(FormatName(Pad3(index), <<"_">>, file_hash))
           IN  FormatName(Pad3(index),
                          Prefix(clean_title,
                                 IF max_title_len > 10 THEN max_title_len ELSE 10),
                          file_hash)
      ELSE name

\* ReferenceProcessor._generate_filename under the default configuration
generate_filename(info, index) ==
  generate_filename_within(info, index, max_filename_length)

\* the filename of every citation that can be submitted, by kind and index
filename_of ==
  [k \in {c \in RefKinds : extract_reference_info(c).encodable} |->
     [i \in Refs |-> generate_filename(ref_text(k), i)]]

cfgvars == <<enabled, clients, max_threads, nrefs>>

\* the indices enumerate(references, 1) yields
Submitted == 1..nrefs
outvars == <<status, source, url, error, tried, pos, net, lim>>
aggvars == <<collected, results, successful_downloads, sources_used, phase>>

\* the fields of a SourceResult kept in sources_tried
Attempt(r) ==
  [source_name |-> r.source_name, success |-> r.success, url |-> r.url,
   error |-> r.error]

Running == {i \in Refs : fut[i] = "running"}

\* a slip: a pool that starts a thread for every task submitted
pool_unbounded(tasks) == TRUE

\* ThreadPoolExecutor(max_workers=config.max_threads): a queued task is taken
\* up only while fewer than max_workers tasks are running
pool_has_idle_worker(tasks) == Cardinality(tasks) < max_threads

\* executor.submit for every citation, and the locals of
\* download_references_parallel before the pool starts
StartRun ==
  /\ fut = [i \in Refs |-> IF i \in Submitted THEN "queued" ELSE "absent"]
  /\ pc = [i \in Refs |-> "create"]
  /\ filename = [i \in Refs |-> << >>]
  /\ file0 = [i \in Refs |-> NoFile]
  /\ status = [i \in Refs |-> "none"]
  /\ source = [i \in Refs |-> "None"]
  /\ url = [i \in Refs |-> FALSE]
  /\ error = [i \in Refs |-> "None"]
  /\ tried = [i \in Refs |-> << >>]
  /\ pos = [i \in Refs |-> 0]
  /\ net = [i \in Refs |-> {}]
  /\ lim = [i \in Refs |-> {}]
  /\ collected = {}
  /\ results = << >>
  /\ successful_downloads = 0
  /\ sources_used = [a \in ApiNames |-> 0]
  /\ phase = "pool"

InitO ==
  /\ nrefs \in 0..NRefs
  /\ enabled \in IF nrefs <= 1
                 THEN {S \in SUBSET ApiNames : Cardinality(S) <= MaxEnabled}
                 ELSE SUBSET {a \in ApiNames :
                                priority[a] <= MaxPoolEnabled + 2 - nrefs}
  /\ clients \in SUBSET (enabled \cap {"semantic_scholar", "crossref"})
  /\ max_threads \in 1..MaxThreads
  /\ refs = [i \in Refs |-> "unread"]
  /\ files \in [Refs -> {NoFile, min_pdf_size}]
  /\ \A i \in Refs : files[i] # NoFile => (nrefs = 1 /\ i = 1)
  /\ run = 1
  /\ prev = [i \in Refs |-> "none"]
  /\ prevname = [i \in Refs |-> << >>]
  /\ StartRun

\* ------------------------------------------------------------------------
\* ReferenceProcessor.process_reference, one action per step
\* ------------------------------------------------------------------------
\* A pool thread takes the oldest queued task and runs process_reference up
\* to the construction of the ReferenceResult (status 'failed').  The title
\* with a lone surrogate makes hash_content.encode() raise inside
\* _generate_filename: the exception leaves process_reference.
Create(i) ==
  /\ phase = "pool"
  /\ fut[i] = "queued"
  /\ \A j \in Refs : j < i => fut[j] # "queued"
  /\ pool_has_idle_worker(Running)
  /\ file0' = [file0 EXCEPT ![i] = files[i]]
  /\ \E k \in IF nrefs <= 1 THEN RefKinds ELSE PoolKinds :
       /\ refs[i] \in {"unread", k}
       /\ refs' = [refs EXCEPT ![i] = k]
       /\ IF extract_reference_info(k).encodable
          THEN /\ fut' = [fut EXCEPT ![i] = "running"]
               /\ filename' = [filename EXCEPT
                                 ![i] = filename_of[k][i]]
               /\ status' = [status EXCEPT ![i] = "failed"]
               /\ pc' = [pc EXCEPT ![i] = "exists"]
          ELSE /\ fut' = [fut EXCEPT ![i] = "raised"]
               /\ pc' = [pc EXCEPT ![i] = "done"]
               /\ UNCHANGED <<status, filename>>
  /\ UNCHANGED <<cfgvars, files, run, prev, prevname, source, url, error, tried,
                 pos, net, lim, aggvars, rlvars, guivars, exvars, fnvars>>

\* a slip: the `return result` of the exists branch left out
ExistsStepNoReturn(i) ==
  /\ status' = [status EXCEPT ![i] = "exists"]
  /\ pc' = [pc EXCEPT ![i] = "loop"]
  /\ pos' = [pos EXCEPT ![i] = 1]
  /\ UNCHANGED fut

\* result.status = 'exists'; return result
ExistsStep(i) ==
  /\ status' = [status EXCEPT ![i] = "exists"]
  /\ pc' = [pc EXCEPT ![i] = "done"]
  /\ fut' = [fut EXCEPT ![i] = "returned"]
  /\ UNCHANGED pos

\* if save_path.exists(): ...; otherwise enter the handler loop
CheckExists(i) ==
  /\ pc[i] = "exists"
  /\ IF path_exists(files[i])
     THEN ExistsStep(i)
     ELSE /\ pc' = [pc EXCEPT ![i] = "loop"]
          /\ pos' = [pos EXCEPT ![i] = 1]
          /\ UNCHANGED <<status, fut>>
  /\ UNCHANGED <<cfgvars, refs, files, file0, run, prev, prevname, filename,
                 source, url, error,
                 tried, net, lim, aggvars, rlvars, guivars, exvars, fnvars>>

\* one iteration of the handler loop up to the download: call the handler of
\* the next enabled service and append its SourceResult
InvokeHandler(i) ==
  /\ pc[i] = "loop"
  /\ pos[i] <= Len(get_enabled_apis(enabled))
  /\ LET api_name == get_enabled_apis(enabled)[pos[i]] IN
       IF api_name \in source_handlers
       THEN \E r \in CallHandler(api_name, extract_reference_info(refs[i]),
                                 enabled, clients) :
              /\ tried' = [tried EXCEPT ![i] = Append(@, Attempt(r))]
              /\ net' = [net EXCEPT ![i] = @ \cup r.net]
              /\ lim' = [lim EXCEPT ![i] = @ \cup r.lim]
              /\ IF r.success /\ r.url
                 THEN pc' = [pc EXCEPT ![i] = "download"] /\ UNCHANGED pos
                 ELSE pos' = [pos EXCEPT ![i] = @ + 1] /\ UNCHANGED pc
       ELSE /\ pos' = [pos EXCEPT ![i] = @ + 1]
            /\ UNCHANGED <<tried, net, lim, pc>>
  /\ UNCHANGED <<cfgvars, refs, files, file0, run, prev, prevname, filename,
                 fut, status, source,
                 url, error, aggvars, rlvars, guivars, exvars, fnvars>>

\* a slip: the failed attempt is left marked successful
DownloadFailedNoMark(i, e) ==
  /\ pos' = [pos EXCEPT ![i] = @ + 1]
  /\ pc' = [pc EXCEPT ![i] = "loop"]
  /\ UNCHANGED <<status, source, url, fut, tried>>

\* a slip: the candidate URL of the failed attempt wiped as well
DownloadFailedWipeUrl(i, e) ==
  /\ tried' = [tried EXCEPT ![i][Len(tried[i])] =
                 [@ EXCEPT !.success = FALSE, !.url = FALSE, !.error = e]]
  /\ pos' = [pos EXCEPT ![i] = @ + 1]
  /\ pc' = [pc EXCEPT ![i] = "loop"]
  /\ UNCHANGED <<status, source, url, fut>>

\* except Exception as e: source_result.success = False;
\* source_result.error = str(e); the loop goes on
DownloadFailed(i, e) ==
  /\ tried' = [tried EXCEPT ![i][Len(tried[i])] =
                 [@ EXCEPT !.success = FALSE, !.error = e]]
  /\ pos' = [pos EXCEPT ![i] = @ + 1]
  /\ pc' = [pc EXCEPT ![i] = "loop"]
  /\ UNCHANGED <<status, source, url, fut>>

\* a slip: the success credited to the first enabled service, not api_name
DownloadSucceededFirst(i) ==
  /\ status' = [status EXCEPT ![i] = "success"]
  /\ source' = [source EXCEPT ![i] = get_enabled_apis(enabled)[1]]
  /\ url' = [url EXCEPT ![i] = TRUE]
  /\ pc' = [pc EXCEPT ![i] = "done"]
  /\ fut' = [fut EXCEPT ![i] = "returned"]
  /\ UNCHANGED <<tried, pos>>

\* status = 'success'; source = api_name; url = source_result.url; return
DownloadSucceeded(i) ==
  /\ status' = [status EXCEPT ![i] = "success"]
  /\ source' = [source EXCEPT ![i] = get_enabled_apis(enabled)[pos[i]]]
  /\ url' = [url EXCEPT ![i] = TRUE]
  /\ pc' = [pc EXCEPT ![i] = "done"]
  /\ fut' = [fut EXCEPT ![i] = "returned"]
  /\ UNCHANGED <<tried, pos>>

\* _download_pdf up to the end of the chunk loop
Transfer(i) ==
  /\ pc[i] = "download"
  /\ net' = [net EXCEPT ![i] = @ \cup {"download"}]
  /\ \E o \in DownloadOutcomes :
       LET t == transfer(o) IN
         /\ files' = [files EXCEPT ![i] = t.file]
         /\ IF t.raised = "None"
            THEN /\ pc' = [pc EXCEPT ![i] = "validate"]
                 /\ UNCHANGED <<status, source, url, fut, tried, pos>>
            ELSE DownloadFailed(i, t.raised)
  /\ UNCHANGED <<cfgvars, refs, file0, run, prev, prevname, filename,
                 error, lim, aggvars, rlvars, guivars, exvars, fnvars>>

\* the size check of _download_pdf and what process_reference does with its
\* result
Validate(i) ==
  /\ pc[i] = "validate"
  /\ LET v == validate(files[i]) IN
       /\ files' = [files EXCEPT ![i] = v.file]
       /\ IF v.raised = "None"
          THEN DownloadSucceeded(i)
          ELSE DownloadFailed(i, v.raised)
  /\ UNCHANGED <<cfgvars, refs, file0, run, prev, prevname, filename,
                 error, net, lim, aggvars,
                 rlvars, guivars, exvars, fnvars>>

\* loop exhausted: result.error = "No open access source found"; return
Finish(i) ==
  /\ pc[i] = "loop"
  /\ pos[i] > Len(get_enabled_apis(enabled))
  /\ error' = [error EXCEPT ![i] = "No open access source found"]
  /\ pc' = [pc EXCEPT ![i] = "done"]
  /\ fut' = [fut EXCEPT ![i] = "returned"]
  /\ UNCHANGED <<cfgvars, refs, files, file0, run, prev, prevname, filename,
                 status, source, url,
                 tried, pos, net, lim, aggvars, rlvars, guivars, exvars,
                 fnvars>>

\* ------------------------------------------------------------------------
\* download_references_parallel: collection loop, summary, return
\* ------------------------------------------------------------------------
\* the status line built for a returned ReferenceResult
StatusLine(i) ==
  [index |-> i,
   kind |-> CASE status[i] = "success" -> "success"
              [] status[i] = "exists" -> "exists"
              [] status[i] = "error" -> "error"
              [] OTHER -> "failed",
   source |-> IF status[i] = "success" THEN source[i] ELSE "None"]

\* the line built in the except branch around future.result()
ErrorLine(i) == [index |-> i, kind |-> "processing_error", source |-> "None"]

\* a slip: the loop body without its try/except loses the raising citation
CollectLineUnguarded(i) ==
  IF fut[i] = "raised" THEN << >> ELSE <<StatusLine(i)>>

\* the lines one iteration of the as_completed loop appends to results
CollectLine(i) ==
  IF fut[i] = "raised" THEN <<ErrorLine(i)>> ELSE <<StatusLine(i)>>

\* a slip: the success credited to the service of highest priority
credit_first(counts, src) ==
  [counts EXCEPT ![get_enabled_apis(ApiNames)[1]] = @ + 1]

\* sources_used[source] = sources_used.get(source, 0) + 1
credit(counts, src) == [counts EXCEPT ![src] = @ + 1]

\* one iteration of `for future in as_completed(future_to_index)`
Collect(i) ==
  /\ phase = "pool"
  /\ fut[i] \in {"returned", "raised"}
  /\ i \notin collected
  /\ collected' = collected \cup {i}
  /\ results' = results \o CollectLine(i)
  /\ IF fut[i] = "returned" /\ status[i] = "success"
     THEN /\ successful_downloads' = successful_downloads + 1
          /\ sources_used' = credit(sources_used, source[i])
     ELSE UNCHANGED <<successful_downloads, sources_used>>
  /\ UNCHANGED <<cfgvars, refs, files, file0, run, prev, prevname, filename,
                 fut, pc, outvars,
                 phase, rlvars, guivars, exvars, fnvars>>

\* a slip: the summary taken without waiting for the loop to run out
as_completed_exhausted_early(done) == TRUE

\* `for future in as_completed(future_to_index)` has run out: every submitted
\* future has been yielded and its line appended
as_completed_exhausted(done) == done = Submitted

\* _generate_summary and the return, once the executor block is left
Summary ==
  /\ phase = "pool"
  /\ nrefs > 0
  /\ as_completed_exhausted(collected)
  /\ results' = Append(results,
                  [index |-> 0, kind |-> "summary", source |-> "None"])
  /\ phase' = "returned"
  /\ UNCHANGED <<cfgvars, refs, files, file0, run, prev, prevname, filename,
                 fut, pc, outvars,
                 collected, successful_downloads, sources_used, rlvars,
                 guivars, exvars, fnvars>>

\* if not references: return ["No references found in PDF"]
NoReferences ==
  /\ phase = "pool"
  /\ nrefs = 0
  /\ results' = <<[index |-> 0, kind |-> "no_references", source |-> "None"]>>
  /\ phase' = "returned"
  /\ UNCHANGED <<cfgvars, refs, files, file0, run, prev, prevname, filename,
                 fut, pc, outvars,
                 collected, successful_downloads, sources_used, rlvars,
                 guivars, exvars, fnvars>>

\* a slip: the output directory recreated empty
mkdir_fresh(f) == [i \in Refs |-> NoFile]

\* output_dir.mkdir(parents=True, exist_ok=True): an existing directory is
\* left as it is
mkdir_exist_ok(f) == f

\* what a run reported for citation i
Reported(i) == IF fut[i] = "raised" THEN "raised" ELSE status[i]

\* download_references_parallel called again with the same citation list on
\* the output directory as the previous run left it
Rerun ==
  /\ phase = "returned"
  /\ run < MaxRuns
  /\ run' = run + 1
  /\ prev' = [i \in Refs |-> Reported(i)]
  /\ prevname' = filename
  /\ filename' = [i \in Refs |-> << >>]
  /\ fut' = [i \in Refs |-> IF i \in Submitted THEN "queued" ELSE "absent"]
  /\ pc' = [i \in Refs |-> "create"]
  /\ file0' = [i \in Refs |-> NoFile]
  /\ status' = [i \in Refs |-> "none"]
  /\ source' = [i \in Refs |-> "None"]
  /\ url' = [i \in Refs |-> FALSE]
  /\ error' = [i \in Refs |-> "None"]
  /\ tried' = [i \in Refs |-> << >>]
  /\ pos' = [i \in Refs |-> 0]
  /\ net' = [i \in Refs |-> {}]
  /\ lim' = [i \in Refs |-> {}]
  /\ collected' = {}
  /\ results' = << >>
  /\ successful_downloads' = 0
  /\ sources_used' = [a \in ApiNames |-> 0]
  /\ phase' = "pool"
  /\ files' = mkdir_exist_ok(files)
  /\ UNCHANGED <<cfgvars, refs, rlvars, guivars, exvars, fnvars>>

\* ------------------------------------------------------------------------
\* RateLimiter
\* ------------------------------------------------------------------------
\* Time is counted in ticks and tokens in units of 1/TicksPerSecond token, so
\* that `time_passed * rate` is a whole number of units: one token is
\* TicksPerSecond units and 1/rate seconds are TicksPerSecond \div rate ticks.
TicksPerSecond == 2
Rates == {1, 2}
RLThreads == 1..NCallers

Min(a, b) == IF a <= b THEN a ELSE b
Max(a, b) == IF a >= b THEN a ELSE b

\* one token (the 1.0 of the code)
OneToken == TicksPerSecond

\* APIManager.__init__: burst_size = max(2, int(rate_limit * 2))
BurstOf(r) == Max(2, 2 * r)

\* tokens = min(burst_size, tokens + time_passed * rate)
Refilled(tok, b, r, time_passed) == Min(b * OneToken, tok + time_passed * r)

\* a slip: the deficit taken for the tokens at hand
sleep_time_slip(tok, r) == tok \div r

\* sleep_time = (1.0 - tokens) / rate, in ticks (the division is exact: tokens
\* is always a multiple of rate units)
sleep_time(tok, r) == (OneToken - tok) \div r

\* a slip: the lock kept when the `with self.lock` block is left
release_never(l, t) == l

\* leaving the `with self.lock` block releases the lock
release(l, t) == IF l = t THEN 0 ELSE l

\* a slip: acquire without `with self.lock`
CanLockUnguarded(l) == TRUE

\* `with self.lock` can be entered when no thread holds the lock
CanLock(l) == l = 0

\* RateLimiter.__init__, as APIManager.__init__ calls it
InitRL ==
  /\ rate \in Rates
  /\ burst_size = BurstOf(rate)
  /\ tokens = burst_size * OneToken
  /\ last_refill = 0
  /\ lock = 0
  /\ clock = 0
  /\ rpc = [t \in RLThreads |-> "idle"]
  /\ rnow = [t \in RLThreads |-> 0]
  /\ wake = [t \in RLThreads |-> 0]
  /\ log = << >>

Calls == Len(log) + Cardinality({t \in RLThreads : rpc[t] # "idle"})

\* a thread calls acquire and reaches `with self.lock`
Call(t) ==
  /\ rpc[t] = "idle"
  /\ Calls < MaxAcquires
  /\ rpc' = [rpc EXCEPT ![t] = "lock"]
  /\ UNCHANGED <<rate, burst_size, tokens, last_refill, lock, clock, rnow,
                 wake, log, ovars, guivars, exvars, fnvars>>

\* the thread enters the `with self.lock` block
Lock(t) ==
  /\ rpc[t] = "lock"
  /\ CanLock(lock)
  /\ lock' = t
  /\ rpc' = [rpc EXCEPT ![t] = "refill"]
  /\ UNCHANGED <<rate, burst_size, tokens, last_refill, clock, rnow, wake,
                 log, ovars, guivars, exvars, fnvars>>

\* now = time.time(); refill; then either consume a token and return, or
\* compute sleep_time and call time.sleep
Refill(t) ==
  /\ rpc[t] = "refill"
  /\ rnow' = [rnow EXCEPT ![t] = clock]
  /\ last_refill' = clock
  /\ LET tok == Refilled(tokens, burst_size, rate, clock - last_refill) IN
       IF tok >= OneToken
       THEN /\ tokens' = tok - OneToken
            /\ rpc' = [rpc EXCEPT ![t] = "idle"]
            /\ lock' = release(lock, t)
            /\ log' = Append(log, [thread |-> t, now |-> clock,
                                   blocked |-> FALSE, slept |-> 0,
                                   ret |-> clock])
            /\ UNCHANGED wake
       ELSE /\ tokens' = tok
            /\ wake' = [wake EXCEPT ![t] = clock + sleep_time(tok, rate)]
            /\ rpc' = [rpc EXCEPT ![t] = "sleep"]
            /\ UNCHANGED <<lock, log>>
  /\ UNCHANGED <<rate, burst_size, clock, ovars, guivars, exvars, fnvars>>

\* time.sleep returns, no earlier than asked; tokens = 0; the lock is released
Wake(t) ==
  /\ rpc[t] = "sleep"
  /\ clock >= wake[t]
  /\ tokens' = 0
  /\ rpc' = [rpc EXCEPT ![t] = "idle"]
  /\ lock' = release(lock, t)
  /\ log' = Append(log, [thread |-> t, now |-> rnow[t], blocked |-> TRUE,
                         slept |-> clock - rnow[t], ret |-> clock])
  /\ UNCHANGED <<rate, burst_size, last_refill, clock, rnow, wake, ovars,
                 guivars, exvars, fnvars>>

\* the clock advances; past MaxTime only as far as a sleeping caller needs
Tick ==
  /\ \/ clock < MaxTime
     \/ \E t \in RLThreads : rpc[t] = "sleep" /\ clock < wake[t]
  /\ clock' = clock + 1
  /\ UNCHANGED <<rate, burst_size, tokens, last_refill, lock, rpc, rnow, wake,
                 log, ovars, guivars, exvars, fnvars>>

\* the downloader is idle while the limiter is exercised
InitOIdle ==
  /\ nrefs = 0
  /\ enabled = {}
  /\ clients = {}
  /\ max_threads = 1
  /\ refs = [i \in Refs |-> "unread"]
  /\ files = [i \in Refs |-> NoFile]
  /\ run = 1
  /\ prev = [i \in Refs |-> "none"]
  /\ prevname = [i \in Refs |-> << >>]
  /\ StartRun

\* the limiter is idle while the downloader is exercised
InitRLIdle ==
  /\ rate = 1
  /\ burst_size = BurstOf(1)
  /\ tokens = burst_size * OneToken
  /\ last_refill = 0
  /\ lock = 0
  /\ clock = 0
  /\ rpc = [t \in RLThreads |-> "idle"]
  /\ rnow = [t \in RLThreads |-> 0]
  /\ wake = [t \in RLThreads |-> 0]
  /\ log = << >>

\* ------------------------------------------------------------------------
\* Reference records, quality score and validity filter
\* (src/grobid_client.py, src/extractor.py)
\* ------------------------------------------------------------------------
\* Text is a sequence of characters.  The texts a citation's fields take:
TitleShort == <<"S", "h", "o", "r", "t">>
TitleHeader == <<"R", "e", "f", "e", "r", "e", "n", "c", "e", "s">>
TitleCaption == <<"T", "a", "b", "l", "e", " ", "1">>
TitleMid == <<"D", "e", "e", "p", " ", "n", "e", "u", "r", "a", "l", " ",
              "n", "e", "t", "s">>
TitleLong == <<"A", "t", "t", "e", "n", "t", "i", "o", "n", " ", "i", "s",
               " ", "a", "l", "l", " ", "y", "o", "u", " ", "n", "e", "e",
               "d">>
RawLong == <<"S", "m", "i", "t", "h", " ", "J", " ", "2", "0", "2", "0", " ",
             "N", "a", "t", "u", "r", "e", ".">>
DoiGood == <<"1", "0", ".", "1", "0", "0", "0", "/", "x", "y", "z">>
DoiBad == <<"n", "/", "a">>
AuthorText == <<"D", "o", "e">>
JournalText == <<"N", "a", "t", "u", "r", "e">>
VenueText == <<"N", "I", "P", "S">>
YearDigits == <<"2", "0", "2", "0">>
YearOther == <<"n", ".", "d", ".">>
ArxivText == <<"1", "7", "0", "6", ".", "0", "3", "7", "6", "2">>

\* the Reference dataclass, by the fields that are read
Reference(t, a, j, v, y, d, x, r) ==
  [title |-> t, authors |-> a, journal |-> j, venue |-> v, year |-> y,
   doi |-> d, arxiv_id |-> x, raw_reference |-> r]

\* citations that exercise the quality score: every combination of the
\* fields it reads
ScoreRecs ==
  {Reference(t, a, j, v, y, d, x, << >>) :
     t \in {<< >>, TitleShort, TitleMid, TitleLong}, a \in {<< >>, AuthorText},
     j \in {<< >>, JournalText}, v \in {<< >>, VenueText},
     y \in {<< >>, YearDigits, YearOther}, d \in {<< >>, DoiGood},
     x \in {<< >>, ArxivText}}

\* citations that exercise the validity filter: every combination of the
\* fields it reads
FilterRecs ==
  {Reference(t, << >>, << >>, << >>, << >>, d, << >>, r) :
     t \in {<< >>, TitleShort, TitleHeader, TitleCaption, TitleMid, TitleLong},
     d \in {<< >>, DoiGood, DoiBad}, r \in {<< >>, RawLong}}

Records == ScoreRecs \cup FilterRecs

DigitChars == {"0", "1", "2", "3", "4", "5", "6", "7", "8", "9"}

\* str.isdigit()
IsDigits(t) == t # << >> /\ \A n \in 1..Len(t) : t[n] \in DigitChars

\* a slip: the score returned without min(1.0, ...)
calculate_quality_score_uncapped(ref) ==
  (IF ref.title # << >> /\ Len(ref.title) > 10 THEN 8 ELSE 0)
  + (IF ref.title # << >> /\ Len(ref.title) > 20 THEN 2 ELSE 0)
  + (IF ref.authors # << >> THEN 4 ELSE 0)
  + (IF ref.journal # << >> \/ ref.venue # << >> THEN 2 ELSE 0)
  + (IF ref.year # << >> /\ IsDigits(ref.year) THEN 2 ELSE 0)
  + (IF ref.doi # << >> THEN 4 ELSE 0)
  + (IF ref.arxiv_id # << >> THEN 3 ELSE 0)

\* a slip: the bonus for a title longer than 20 characters left out
calculate_quality_score_nobonus(ref) ==
  LET score ==
        (IF ref.title # << >> /\ Len(ref.title) > 10 THEN 8 ELSE 0)
        + (IF ref.authors # << >> THEN 4 ELSE 0)
        + (IF ref.journal # << >> \/ ref.venue # << >> THEN 2 ELSE 0)
        + (IF ref.year # << >> /\ IsDigits(ref.year) THEN 2 ELSE 0)
        + (IF ref.doi # << >> THEN 4 ELSE 0)
        + (IF ref.arxiv_id # << >> THEN 3 ELSE 0)
  IN  IF score < 20 THEN score ELSE 20

\* Reference.calculate_quality_score, in twentieths (0.05): 0.4 is 8, 0.1 is
\* 2, 0.2 is 4, 0.15 is 3 and 1.0 is 20
calculate_quality_score(ref) ==
  LET score ==
        (IF ref.title # << >> /\ Len(ref.title) > 10 THEN 8 ELSE 0)
        + (IF ref.title # << >> /\ Len(ref.title) > 20 THEN 2 ELSE 0)
        + (IF ref.authors # << >> THEN 4 ELSE 0)
        + (IF ref.journal # << >> \/ ref.venue # << >> THEN 2 ELSE 0)
        + (IF ref.year # << >> /\ IsDigits(ref.year) THEN 2 ELSE 0)
        + (IF ref.doi # << >> THEN 4 ELSE 0)
        + (IF ref.arxiv_id # << >> THEN 3 ELSE 0)
  IN  IF score < 20 THEN score ELSE 20

\* BibPConfig.min_reference_quality_score (0.3), in twentieths
min_reference_quality_score == 6

\* BibPConfig.min_title_length
min_title_length == 10

\* Reference.to_dict
to_dict(ref) ==
  [title |-> ref.title, author |-> ref.authors,
   journal |-> IF ref.journal # << >> THEN ref.journal ELSE ref.venue,
   year |-> ref.year, doi |-> ref.doi,
   misc |-> IF ref.arxiv_id # << >>
            THEN <<"a", "r", "x", "i", "v", ":">> \o ref.arxiv_id ELSE << >>,
   raw_reference |-> ref.raw_reference, arxiv_id |-> << >>]

\* str.strip()
Strip(t) == StripRight(StripLeft(t))

StartsWith(t, pre) == Len(t) >= Len(pre) /\ SubSeq(t, 1, Len(pre)) = pre

Drop(t, n) == SubSeq(t, n + 1, Len(t))

\* the prefixes re.sub(r'^https?://(?:dx\.)?doi\.org/', '', doi) removes
DoiUrlPrefixes ==
  LET host == <<"d", "o", "i", ".", "o", "r", "g", "/">>
      dx == <<"d", "x", ".">>
      http == <<"h", "t", "t", "p", ":", "/", "/">>
      https == <<"h", "t", "t", "p", "s", ":", "/", "/">>
  IN  {http \o host, https \o host, http \o dx \o host, https \o dx \o host}

\* t with its trailing full stops removed: str.rstrip('.')
RECURSIVE RStripDots(_)
RStripDots(t) ==
  IF t # << >> /\ t[Len(t)] = "." THEN RStripDots(SubSeq(t, 1, Len(t) - 1))
  ELSE t

\* re.match(r'^10\.\d+/', doi)
DoiWellFormed(d) ==
  /\ StartsWith(d, <<"1", "0", ".">>)
  /\ \E n \in 5..Len(d) :
       /\ d[n] = "/"
       /\ \A m \in 4..(n - 1) : d[m] \in DigitChars

\* extractor._clean_doi
clean_doi(doi) ==
  IF doi = << >> THEN << >>
  ELSE LET bare == IF \E pre \in DoiUrlPrefixes : StartsWith(doi, pre)
                   THEN Drop(doi, Len(CHOOSE pre \in DoiUrlPrefixes :
                                         StartsWith(doi, pre)
                                         /\ \A q \in DoiUrlPrefixes :
                                              StartsWith(doi, q) =>
                                                Len(q) <= Len(pre)))
                   ELSE doi
           d == RStripDots(Strip(bare))
       IN  IF DoiWellFormed(d) THEN d ELSE << >>

\* '. '.join(parts)
RECURSIVE JoinDotBlank(_)
JoinDotBlank(parts) ==
  IF parts = << >> THEN << >>
  ELSE IF Len(parts) = 1 THEN parts[1]
  ELSE parts[1] \o <<".", " ">> \o JoinDotBlank(Tail(parts))

\* extractor._post_process_reference
post_process_reference(ref) ==
  LET s == [ref EXCEPT !.title = Strip(@), !.author = Strip(@),
                       !.journal = Strip(@), !.year = Strip(@),
                       !.doi = Strip(@), !.misc = Strip(@)]
      d == [s EXCEPT !.doi = IF @ # << >> THEN clean_doi(@) ELSE @]
      \* the misc text built by to_dict spells "arxiv:" followed by the id
      x == [d EXCEPT !.arxiv_id =
              IF d.misc # << >> /\ @ = << >>
                 /\ StartsWith(d.misc, <<"a", "r", "x", "i", "v", ":">>)
              THEN Drop(d.misc, 6) ELSE @]
      parts == <<x.title>>
               \o (IF x.author # << >> THEN <<<<"b", "y", " ">> \o x.author>>
                   ELSE << >>)
               \o (IF x.journal # << >> THEN <<x.journal>> ELSE << >>)
               \o (IF x.year # << >> THEN <<<<"(">> \o x.year \o <<")">>>>
                   ELSE << >>)
  IN  IF x.raw_reference = << >> /\ x.title # << >>
      THEN [x EXCEPT !.raw_reference = JoinDotBlank(parts)]
      ELSE x

\* the letters, for re.IGNORECASE
UpperLetters ==
  <<"A", "B", "C", "D", "E", "F", "G", "H", "I", "J", "K", "L", "M", "N", "O",
    "P", "Q", "R", "S", "T", "U", "V", "W", "X", "Y", "Z">>
LowerLetters ==
  <<"a", "b", "c", "d", "e", "f", "g", "h", "i", "j", "k", "l", "m", "n", "o",
    "p", "q", "r", "s", "t", "u", "v", "w", "x", "y", "z">>

LowerChar(c) ==
  IF \E n \in 1..26 : UpperLetters[n] = c
  THEN LowerLetters[CHOOSE n \in 1..26 : UpperLetters[n] = c]
  ELSE c

Lower(t) == [n \in 1..Len(t) |-> LowerChar(t[n])]

IsLetter(c) == \E n \in 1..26 : LowerLetters[n] = LowerChar(c)

\* r'^(acknowledgments?|references?|bibliography)$'
SectionHeaders ==
  {<<"a", "c", "k", "n", "o", "w", "l", "e", "d", "g", "m", "e", "n", "t">>,
   <<"a", "c", "k", "n", "o", "w", "l", "e", "d", "g", "m", "e", "n", "t", "s">>,
   <<"r", "e", "f", "e", "r", "e", "n", "c", "e">>,
   <<"r", "e", "f", "e", "r", "e", "n", "c", "e", "s">>,
   <<"b", "i", "b", "l", "i", "o", "g", "r", "a", "p", "h", "y">>}

\* r'^(table|figure|fig\.)\s*\d+'
CaptionWords ==
  {<<"t", "a", "b", "l", "e">>, <<"f", "i", "g", "u", "r", "e">>,
   <<"f", "i", "g", ".">>}

\* re.match(pattern, title, re.IGNORECASE) for one of false_positive_patterns
MatchesFalsePositive(title) ==
  LET low == Lower(title) IN
    \/ low \in SectionHeaders
    \/ \E w \in CaptionWords :
         /\ StartsWith(low, w)
         /\ LET rest == StripLeft(Drop(low, Len(w)))
            IN  rest # << >> /\ Head(rest) \in DigitChars
    \/ IsDigits(title)
    \/ Len(title) = 1 /\ IsLetter(title[1])

\* a slip: the DOI left out of has_content
is_valid_reference_nodoi(ref) ==
  LET has_content ==
        \/ Strip(ref.title) # << >> /\ Len(Strip(ref.title)) >= min_title_length
        \/ Strip(ref.raw_reference) # << >> /\ Len(Strip(ref.raw_reference)) >= 20
      title == Strip(ref.title)
  IN  IF ~has_content THEN FALSE
      ELSE IF title # << >> /\ MatchesFalsePositive(title) THEN FALSE
      ELSE TRUE

\* extractor._is_valid_reference
is_valid_reference(ref) ==
  LET has_content ==
        \/ Strip(ref.title) # << >> /\ Len(Strip(ref.title)) >= min_title_length
        \/ Strip(ref.raw_reference) # << >> /\ Len(Strip(ref.raw_reference)) >= 20
        \/ Strip(ref.doi) # << >>
      title == Strip(ref.title)
  IN  IF ~has_content THEN FALSE
      ELSE IF title # << >> /\ MatchesFalsePositive(title) THEN FALSE
      ELSE TRUE

\* ------------------------------------------------------------------------
\* ProcessingThread (src/gui.py)
\* ------------------------------------------------------------------------
\* no ProcessingThread exists
InitGUIIdle ==
  /\ should_stop = FALSE
  /\ file_idx = 0
  /\ gpc = "idle"

\* ProcessingThread.__init__ and start(): should_stop = False, and the
\* downloader configured as for a list of several citations
InitGUI ==
  /\ should_stop = FALSE
  /\ file_idx = 1
  /\ gpc = "check"
  /\ nrefs = 0
  /\ enabled \in SUBSET {a \in ApiNames : priority[a] <= MaxPoolEnabled}
  /\ clients = {}
  /\ max_threads \in 1..MaxThreads
  /\ refs = [i \in Refs |-> "unread"]
  /\ files = [i \in Refs |-> NoFile]
  /\ run = 1
  /\ prev = [i \in Refs |-> "none"]
  /\ prevname = [i \in Refs |-> << >>]
  /\ StartRun

\* what extract_references gives ProcessingThread.run for one PDF: the number
\* of citations, or -1 when it raises
Extractions == (0..NRefs) \cup {-1}

\* the head of the loop body of ProcessingThread.run: `if self.should_stop:
\* break`, then extract_references, then either `continue` (no citation, or
\* the exception caught around the body) or the call of
\* download_references_parallel, which submits every citation to its pool
GCheck ==
  /\ gpc = "check"
  /\ IF file_idx > NFiles \/ should_stop
     THEN /\ gpc' = "finished"
          /\ UNCHANGED <<file_idx, nrefs, refs, files, file0, filename, fut,
                         pc, outvars, aggvars>>
     ELSE \E n \in Extractions :
            IF n <= 0
            THEN /\ file_idx' = file_idx + 1
                 /\ UNCHANGED <<gpc, nrefs, refs, files, file0, filename, fut,
                                pc, outvars, aggvars>>
            ELSE /\ gpc' = "pool"
                 /\ nrefs' = n
                 /\ refs' = [i \in Refs |-> "unread"]
                 /\ files' = [i \in Refs |-> NoFile]
                 /\ fut' = [i \in Refs |-> IF i <= n THEN "queued" ELSE "absent"]
                 /\ pc' = [i \in Refs |-> "create"]
                 /\ filename' = [i \in Refs |-> << >>]
                 /\ file0' = [i \in Refs |-> NoFile]
                 /\ status' = [i \in Refs |-> "none"]
                 /\ source' = [i \in Refs |-> "None"]
                 /\ url' = [i \in Refs |-> FALSE]
                 /\ error' = [i \in Refs |-> "None"]
                 /\ tried' = [i \in Refs |-> << >>]
                 /\ pos' = [i \in Refs |-> 0]
                 /\ net' = [i \in Refs |-> {}]
                 /\ lim' = [i \in Refs |-> {}]
                 /\ collected' = {}
                 /\ results' = << >>
                 /\ successful_downloads' = 0
                 /\ sources_used' = [a \in ApiNames |-> 0]
                 /\ phase' = "pool"
                 /\ UNCHANGED file_idx
  /\ UNCHANGED <<enabled, clients, max_threads, run, prev, prevname,
                 should_stop, rlvars, exvars, fnvars>>

\* download_references_parallel has returned: the statuses are parsed and the
\* loop goes to the next PDF
GFileDone ==
  /\ gpc = "pool"
  /\ phase = "returned"
  /\ gpc' = "check"
  /\ file_idx' = file_idx + 1
  /\ UNCHANGED <<should_stop, ovars, rlvars, exvars, fnvars>>

\* ProcessingThread.stop, called from the GUI thread at any moment
Stop ==
  /\ gpc \in {"check", "pool"}
  /\ ~should_stop
  /\ should_stop' = TRUE
  /\ UNCHANGED <<file_idx, gpc, ovars, rlvars, exvars, fnvars>>

\* ------------------------------------------------------------------------
\* extract_references (src/extractor.py) and extract_references_grobid
\* (src/grobid_client.py)
\* ------------------------------------------------------------------------
ForceMethods == {"None", "grobid", "refextract"}

\* the locals of one extract_references call: its force_method, use_grobid,
\* position, what _extract_with_grobid gave ("none": not called), whether the
\* call has run _extract_with_refextract, and `references`
Frame(force) ==
  [force |-> force, use_grobid |-> FALSE, pc |-> "start", got |-> "none",
   heur |-> FALSE, out |-> << >>]

Top == stack[Len(stack)]

SetTop(fr) == [stack EXCEPT ![Len(stack)] = fr]

\* use_grobid = force_method == 'grobid' or
\*              (force_method != 'refextract' and config.grobid_enabled)
use_grobid(force) ==
  force = "grobid" \/ (force # "refextract" /\ grobid_enabled)

\* a slip: the fallback taken whatever the structured backend returned
grobid_gave_nothing_always(references) == TRUE

\* the `else` of `if references:` after _extract_with_grobid
grobid_gave_nothing(references) == references = << >>

\* extract_references after _extract_with_grobid returned `references`
AfterGrobid(fr, references) ==
  IF grobid_gave_nothing(references)
  THEN [fr EXCEPT !.got = IF references = << >> THEN "empty" ELSE "records",
                  !.pc = "heuristic_try"]
  ELSE [fr EXCEPT !.got = "records", !.out = references, !.pc = "post"]

\* extract_references_grobid falls back by calling extract_references(pdf_path)
\* again; past the interpreter's limit the call raises RecursionError, which
\* the `except Exception` of the calling extract_references catches
Recurse ==
  IF Len(stack) < MaxDepth
  THEN Append(SetTop([Top EXCEPT !.pc = "await"]), Frame("None"))
  ELSE SetTop([Top EXCEPT !.got = "raised", !.pc = "heuristic"])

\* the post-processing loop of extract_references
RECURSIVE PostProcessAll(_)
PostProcessAll(references) ==
  IF references = << >> THEN << >>
  ELSE LET processed_ref == post_process_reference(Head(references))
       IN  (IF is_valid_reference(processed_ref) THEN <<processed_ref>>
            ELSE << >>) \o PostProcessAll(Tail(references))

InitEx ==
  /\ grobid_enabled \in BOOLEAN
  /\ is_alive \in BOOLEAN
  /\ is_alive => grobid_enabled
  /\ rec \in Records
  /\ \E force \in ForceMethods : stack = <<Frame(force)>>
  /\ running = {}
  /\ quality = -1
  /\ filtered = << >>

\* no extraction is in progress
InitExIdle ==
  /\ grobid_enabled = FALSE
  /\ is_alive = FALSE
  /\ rec = Reference(<< >>, << >>, << >>, << >>, << >>, << >>, << >>, << >>)
  /\ stack = << >>
  /\ running = {}
  /\ quality = -1
  /\ filtered = << >>

\* extract_references up to `if use_grobid:`
ExDecide ==
  /\ stack # << >>
  /\ Top.pc = "start"
  /\ stack' = SetTop([Top EXCEPT
                        !.use_grobid = use_grobid(Top.force),
                        !.pc = IF use_grobid(Top.force) THEN "grobid"
                               ELSE "heuristic"])
  /\ UNCHANGED <<grobid_enabled, is_alive, rec, running, quality, filtered,
                 ovars, rlvars, guivars, fnvars>>

\* _extract_with_grobid up to the request: the import may fail (-> []), the
\* client may be missing or not alive (-> extract_references again), or the
\* request to GROBID starts
ExGrobidCall ==
  /\ stack # << >>
  /\ Top.pc = "grobid"
  /\ \/ /\ stack' = SetTop(AfterGrobid(Top, << >>))
        /\ UNCHANGED running
     \/ /\ ~(grobid_enabled /\ is_alive)
        /\ stack' = Recurse
        /\ UNCHANGED running
     \/ /\ grobid_enabled /\ is_alive
        /\ running' = running \cup {"grobid"}
        /\ stack' = SetTop([Top EXCEPT !.pc = "grobid_run"])
  /\ UNCHANGED <<grobid_enabled, is_alive, rec, quality, filtered, ovars,
                 rlvars, guivars, fnvars>>

\* GROBIDClient.extract_references: the citations scored and those under the
\* minimum dropped; a failed request gives []; a PDF that vanished since the
\* path was checked raises ValueError, and extract_references_grobid then
\* calls extract_references again
ExGrobidRun ==
  /\ stack # << >>
  /\ Top.pc = "grobid_run"
  /\ running' = running \ {"grobid"}
  /\ \/ /\ quality' = calculate_quality_score(rec)
        /\ stack' = SetTop(AfterGrobid(Top,
                      IF calculate_quality_score(rec) >= min_reference_quality_score
                      THEN <<to_dict(rec)>> ELSE << >>))
     \/ /\ stack' = SetTop(AfterGrobid(Top, << >>))
        /\ UNCHANGED quality
     \/ /\ stack' = Recurse
        /\ UNCHANGED quality
  /\ UNCHANGED <<grobid_enabled, is_alive, rec, filtered, ovars, rlvars,
                 guivars, fnvars>>

\* a nested extract_references call ends: its list, or its exception, reaches
\* the calling extract_references through extract_references_grobid and
\* _extract_with_grobid
ExReturn ==
  /\ Len(stack) >= 2
  /\ Top.pc \in {"returned", "raised"}
  /\ LET caller == stack[Len(stack) - 1]
         after == IF Top.pc = "raised"
                  THEN [caller EXCEPT !.got = "raised", !.pc = "heuristic"]
                  ELSE AfterGrobid(caller, Top.out)
     IN  stack' = Append(SubSeq(stack, 1, Len(stack) - 2), after)
  /\ UNCHANGED <<grobid_enabled, is_alive, rec, running, quality, filtered,
                 ovars, rlvars, guivars, fnvars>>

\* _extract_with_refextract is called
ExHeuristic ==
  /\ stack # << >>
  /\ Top.pc \in {"heuristic", "heuristic_try"}
  /\ running' = running \cup {"refextract"}
  /\ stack' = SetTop([Top EXCEPT
                        !.heur = TRUE,
                        !.pc = IF Top.pc = "heuristic" THEN "heur_run"
                               ELSE "heur_run_try"])
  /\ UNCHANGED <<grobid_enabled, is_alive, rec, quality, filtered, ovars,
                 rlvars, guivars, fnvars>>

\* _extract_with_refextract ends: citations, none, or an exception.  The call
\* made in the `else` of `if references:` stands inside the try block, so its
\* exception is caught and refextract is called once more; the other calls
\* let the exception leave extract_references
ExHeuristicRun ==
  /\ stack # << >>
  /\ Top.pc \in {"heur_run", "heur_run_try"}
  /\ running' = running \ {"refextract"}
  /\ \/ stack' = SetTop([Top EXCEPT !.out = <<to_dict(rec)>>, !.pc = "post"])
     \/ stack' = SetTop([Top EXCEPT !.out = << >>, !.pc = "returned"])
     \/ stack' = SetTop([Top EXCEPT
                           !.pc = IF Top.pc = "heur_run_try" THEN "heuristic"
                                  ELSE "raised"])
  /\ UNCHANGED <<grobid_enabled, is_alive, rec, quality, filtered, ovars,
                 rlvars, guivars, fnvars>>

\* the post-processing loop and the return
ExPost ==
  /\ stack # << >>
  /\ Top.pc = "post"
  /\ stack' = SetTop([Top EXCEPT !.out = PostProcessAll(Top.out),
                                 !.pc = "returned"])
  /\ filtered' = <<[ref |-> post_process_reference(Top.out[Len(Top.out)]),
                   ok |-> is_valid_reference(
                            post_process_reference(Top.out[Len(Top.out)]))]>>
  /\ UNCHANGED <<grobid_enabled, is_alive, rec, running, quality, ovars,
                 rlvars, guivars, fnvars>>

\* ------------------------------------------------------------------------
\* One citation through _extract_reference_info, _post_process_reference and
\* _generate_filename
\* ------------------------------------------------------------------------
DoiUrl == <<"h", "t", "t", "p", "s", ":", "/", "/", "d", "o", "i", ".", "o",
            "r", "g", "/">> \o DoiGood
DoiDxDot == <<"h", "t", "t", "p", ":", "/", "/", "d", "x", ".", "d", "o", "i",
              ".", "o", "r", "g", "/">> \o DoiGood \o <<".">>
DoiPadded == <<" ">> \o DoiGood \o <<".", ".", " ">>
DoiNoDigits == <<"1", "0", ".", "x", "/", "y">>
DoiUrlBad == <<"h", "t", "t", "p", "s", ":", "/", "/", "d", "o", "i", ".",
               "o", "r", "g", "/", "n", "/", "a">>
DoiUrlOnly == <<"h", "t", "t", "p", "s", ":", "/", "/", "d", "o", "i", ".",
                "o", "r", "g", "/">>
DoiInText == <<"d", "o", "i", ":">> \o DoiGood

\* raw DOI texts: well formed, behind a resolver URL, padded, malformed
RawDois ==
  {<< >>, DoiGood, DoiBad, DoiUrl, DoiDxDot, DoiPadded, DoiNoDigits,
   DoiUrlBad, DoiUrlOnly, DoiInText}

MiscArxiv == <<"a", "r", "X", "i", "v", ":">> \o ArxivText \o <<"v", "2">>

\* a citation dict as refextract or Reference.to_dict gives it
Cite(t, d, m, r) ==
  [title |-> t, author |-> << >>, journal |-> << >>, year |-> << >>,
   doi |-> d, misc |-> m, raw_reference |-> r, arxiv_id |-> << >>]

Cites ==
  {Cite(t, d, m, r) :
     t \in {<< >>, <<" ">> \o TitleShort, TitleLong \o <<":", " ">> \o TitleMid},
     d \in RawDois, m \in {<< >>, MiscArxiv}, r \in {<< >>, RawLong}}

\* ReferenceProcessor._clean_doi
processor_clean_doi(doi) ==
  IF doi = << >> THEN << >>
  ELSE LET bare == IF \E pre \in DoiUrlPrefixes : StartsWith(doi, pre)
                   THEN Drop(doi, Len(CHOOSE pre \in DoiUrlPrefixes :
                                         StartsWith(doi, pre)
                                         /\ \A q \in DoiUrlPrefixes :
                                              StartsWith(doi, q) =>
                                                Len(q) <= Len(pre)))
                   ELSE doi
           d == RStripDots(Strip(bare))
       IN  IF DoiWellFormed(d) THEN d ELSE << >>

AllDigits(t, a, b) == b <= Len(t) /\ \A n \in a..b : t[n] \in DigitChars

\* the last position of the run of digits that starts at n
RECURSIVE DigitRunEnd(_, _)
DigitRunEnd(t, n) ==
  IF n + 1 <= Len(t) /\ t[n + 1] \in DigitChars THEN DigitRunEnd(t, n + 1)
  ELSE n

\* group 1 of r'arXiv:?(\d{4}\.\d{4,5}(?:v\d+)?)' (re.IGNORECASE) matched at
\* position p of t; empty when there is no match at p
ArxivGroupAt(t, p) ==
  IF p + 4 <= Len(t)
     /\ Lower(SubSeq(t, p, p + 4)) = <<"a", "r", "x", "i", "v">>
  THEN LET q == IF p + 5 <= Len(t) /\ t[p + 5] = ":" THEN p + 6 ELSE p + 5
           e == IF AllDigits(t, q + 9, q + 9) THEN q + 9 ELSE q + 8
           v == IF e + 2 <= Len(t) /\ LowerChar(t[e + 1]) = "v"
                   /\ t[e + 2] \in DigitChars
                THEN DigitRunEnd(t, e + 2) ELSE e
       IN  IF AllDigits(t, q, q + 3) /\ q + 4 <= Len(t) /\ t[q + 4] = "."
              /\ AllDigits(t, q + 5, q + 8)
           THEN SubSeq(t, q, v) ELSE << >>
  ELSE << >>

\* arxiv_match.group(1) if arxiv_match else '': re.search takes the leftmost
\* match
ArxivSearch(t) ==
  LET hits == {p \in 1..Len(t) : ArxivGroupAt(t, p) # << >>}
  IN  IF hits = {} THEN << >>
      ELSE ArxivGroupAt(t, CHOOSE p \in hits : \A q \in hits : p <= q)

\* a slip: the DOI stripped but not validated
normalized_info_unvalidated(ref) ==
  [title |-> Strip(ref.title), doi |-> Strip(ref.doi),
   raw_reference |-> Strip(ref.raw_reference),
   arxiv_id |-> ArxivSearch(ref.misc \o <<" ">> \o ref.raw_reference)]

\* ReferenceProcessor._extract_reference_info on the text of the fields
\* (extract_reference_info above gives the same by kind of citation)
normalized_info(ref) ==
  [title |-> Strip(ref.title),
   doi |-> processor_clean_doi(Strip(ref.doi)),
   raw_reference |-> Strip(ref.raw_reference),
   arxiv_id |-> ArxivSearch(ref.misc \o <<" ">> \o ref.raw_reference)]

Indices == {1, 12}
\* config.max_filename_length: the default, and two maxima a configuration
\* file can set that are shorter than a name with a long title
MaxLens == {max_filename_length, 40, 25}

InitFn ==
  /\ cite \in Cites
  /\ cite_index \in Indices
  /\ max_len \in MaxLens
  /\ norm_info = << >>
  /\ processed = << >>
  /\ fname = << >>

\* no citation is being normalised
InitFnIdle ==
  /\ cite = Cite(<< >>, << >>, << >>, << >>)
  /\ cite_index = 1
  /\ max_len = max_filename_length
  /\ norm_info = << >>
  /\ processed = << >>
  /\ fname = << >>

\* ref_info = self._extract_reference_info(ref)
FnNormalize ==
  /\ norm_info = << >>
  /\ norm_info' = <<normalized_info(cite)>>
  /\ UNCHANGED <<cite, cite_index, max_len, processed, fname, ovars, rlvars,
                 guivars, exvars>>

\* filename = self._generate_filename(ref_info, index)
FnFilename ==
  /\ norm_info # << >>
  /\ fname = << >>
  /\ fname' = generate_filename_within(norm_info[1], cite_index, max_len)
  /\ UNCHANGED <<cite, cite_index, max_len, norm_info, processed, ovars,
                 rlvars, guivars, exvars>>

\* processed_ref = _post_process_reference(ref)
FnPostProcess ==
  /\ processed = << >>
  /\ processed' = <<post_process_reference(cite)>>
  /\ UNCHANGED <<cite, cite_index, max_len, norm_info, fname, ovars, rlvars,
                 guivars, exvars>>

Init == InitO /\ InitRLIdle /\ InitGUIIdle /\ InitExIdle /\ InitFnIdle

Next ==
  \/ \E i \in Refs : Create(i)
  \/ \E i \in Refs : CheckExists(i)
  \/ \E i \in Refs : InvokeHandler(i)
  \/ \E i \in Refs : Transfer(i)
  \/ \E i \in Refs : Validate(i)
  \/ \E i \in Refs : Finish(i)
  \/ \E i \in Refs : Collect(i)
  \/ Summary
  \/ NoReferences
  \/ Rerun

Spec == Init /\ [][Next]_vars

InitLim == InitOIdle /\ InitRL /\ InitGUIIdle /\ InitExIdle /\ InitFnIdle

NextRL ==
  \/ \E t \in RLThreads : Call(t)
  \/ \E t \in RLThreads : Lock(t)
  \/ \E t \in RLThreads : Refill(t)
  \/ \E t \in RLThreads : Wake(t)
  \/ Tick

SpecRL == InitLim /\ [][NextRL]_vars

InitThread == InitGUI /\ InitRLIdle /\ InitExIdle /\ InitFnIdle

NextGUI ==
  \/ GCheck
  \/ GFileDone
  \/ Stop
  \/ \E i \in Refs : Create(i)
  \/ \E i \in Refs : CheckExists(i)
  \/ \E i \in Refs : InvokeHandler(i)
  \/ \E i \in Refs : Transfer(i)
  \/ \E i \in Refs : Validate(i)
  \/ \E i \in Refs : Finish(i)
  \/ \E i \in Refs : Collect(i)
  \/ Summary

SpecGUI == InitThread /\ [][NextGUI]_vars

InitExtract == InitOIdle /\ InitRLIdle /\ InitGUIIdle /\ InitEx /\ InitFnIdle

NextEx ==
  \/ ExDecide
  \/ ExGrobidCall
  \/ ExGrobidRun
  \/ ExReturn
  \/ ExHeuristic
  \/ ExHeuristicRun
  \/ ExPost

SpecEx == InitExtract /\ [][NextEx]_vars

InitNormalize ==
  InitOIdle /\ InitRLIdle /\ InitGUIIdle /\ InitExIdle /\ InitFn

NextFn ==
  \/ FnNormalize
  \/ FnFilename
  \/ FnPostProcess

SpecFn == InitNormalize /\ [][NextFn]_vars

\* One run of download_references_parallel whose workers pass through the
\* limiter: RLThreads names the pool threads as Refs names their citations,
\* and the limiter stands for the one of the service being asked.  The
\* services enabled are among those whose handler calls rate_limit: two of
\* them for one citation, one for two citations, none for a longer list.
\* api_manager is created once per process, so a run may find the bucket
\* full or drawn empty.
LiveServices(n) ==
  CASE n = 1 -> {"unpaywall", "openalex"}
    [] n = 2 -> {"unpaywall"}
    [] OTHER -> {}

InitLive ==
  /\ nrefs \in 1..NRefs
  /\ enabled \in SUBSET LiveServices(nrefs)
  /\ clients = {}
  /\ max_threads \in 1..MaxThreads
  /\ refs = [i \in Refs |-> "unread"]
  /\ files = [i \in Refs |-> NoFile]
  /\ run = 1
  /\ prev = [i \in Refs |-> "none"]
  /\ prevname = [i \in Refs |-> << >>]
  /\ StartRun
  /\ rate \in Rates
  /\ burst_size = BurstOf(rate)
  /\ tokens \in {0, burst_size * OneToken}
  /\ last_refill = 0
  /\ lock = 0
  /\ clock = 0
  /\ rpc = [t \in RLThreads |-> "idle"]
  /\ rnow = [t \in RLThreads |-> 0]
  /\ wake = [t \in RLThreads |-> 0]
  /\ log = << >>
  /\ InitGUIIdle /\ InitExIdle /\ InitFnIdle

\* the acquire calls of worker i that returned
AcquiresBy(i) == Cardinality({n \in 1..Len(log) : log[n].thread = i})

\* worker i is inside a handler that calls api_manager.rate_limit and has
\* not called it yet
AtRateLimit(i) ==
  /\ i \in Refs \cap RLThreads
  /\ fut[i] = "running" /\ pc[i] = "loop"
  /\ pos[i] <= Len(get_enabled_apis(enabled))
  /\ get_enabled_apis(enabled)[pos[i]] \in source_handlers
  /\ \E r \in CallHandler(get_enabled_apis(enabled)[pos[i]],
                           extract_reference_info(refs[i]), enabled, clients) :
       r.lim # {}
  /\ AcquiresBy(i) = Cardinality(lim[i])

\* the handler of worker i goes on once no acquire call of the worker is
\* pending, and the limiters its result names are those it went through
HandlerStep(i) ==
  /\ i \in RLThreads => rpc[i] = "idle"
  /\ InvokeHandler(i)
  /\ i \in RLThreads => Cardinality(lim'[i]) = AcquiresBy(i)

\* time is let pass while a worker sleeps inside acquire; the other steps
\* of a run are taken to need none
SleepTick ==
  /\ \E t \in RLThreads : rpc[t] = "sleep"
  /\ Tick

NextLive ==
  \/ \E i \in Refs : Create(i)
  \/ \E i \in Refs : CheckExists(i)
  \/ \E i \in Refs : AtRateLimit(i) /\ Call(i)
  \/ \E t \in RLThreads : Lock(t)
  \/ \E t \in RLThreads : Refill(t)
  \/ \E t \in RLThreads : Wake(t)
  \/ SleepTick
  \/ \E i \in Refs : HandlerStep(i)
  \/ \E i \in Refs : Transfer(i)
  \/ \E i \in Refs : Validate(i)
  \/ \E i \in Refs : Finish(i)
  \/ \E i \in Refs : Collect(i)
  \/ Summary

\* the interpreter keeps running some thread that can run, and time passes
SpecLive == InitLive /\ [][NextLive]_vars /\ WF_vars(NextLive)

\* ========================================================================
\* Properties
\* ========================================================================
\* place of service a among the enabled services in ascending priority
Rank(a) == Cardinality({b \in enabled : priority[b] < priority[a]}) + 1

\* C1: the attempts of a citation are those of the enabled handlers taken in
\* strictly ascending priority with none skipped, and when the citation
\* succeeds through the k-th handler of that order the attempt list holds
\* exactly k attempts: k-1 unsuccessful ones followed by the successful one
\* (so no handler after the k-th was invoked).
C1_FallbackOrder ==
  \A i \in Refs :
    /\ \A j \in 1..Len(tried[i]) :
         /\ tried[i][j].source_name \in enabled
         /\ Rank(tried[i][j].source_name) = j
    /\ status[i] = "success" =>
         /\ file0[i] = NoFile
         /\ source[i] \in enabled
         /\ Len(tried[i]) = Rank(source[i])
         /\ tried[i][Len(tried[i])].success
         /\ \A j \in 1..(Len(tried[i]) - 1) : ~tried[i][j].success

\* a citation won by the second or a later handler, processed and collected
C1_Witness ==
  \E i \in Refs :
    /\ status[i] = "success"
    /\ Len(tried[i]) >= 2
    /\ i \in collected

\* C2: a process_reference call that finds its target path present returns
\* 'exists' with no attempt recorded, no limiter acquired, no network call,
\* and the file untouched; the step that answers 'exists' changes no file.
C2_ExistsNoEffect ==
  /\ [](\A i \in Refs :
          (fut[i] \in {"running", "returned"} /\ file0[i] # NoFile) =>
            /\ tried[i] = << >>
            /\ net[i] = {}
            /\ lim[i] = {}
            /\ files[i] = file0[i]
            /\ pc[i] \in {"exists", "done"}
            /\ pc[i] = "done" => (status[i] = "exists" /\ fut[i] = "returned"))
  /\ [][\A i \in Refs :
          (pc[i] = "exists" /\ file0[i] # NoFile /\ pc'[i] # pc[i]) =>
             (files' = files /\ net' = net /\ lim' = lim /\ tried' = tried)]_vars

\* a call that found its target present has returned
C2_Witness ==
  \E i \in Refs :
    /\ file0[i] # NoFile
    /\ fut[i] = "returned"
    /\ status[i] = "exists"

\* C3 as stated: after a second run over the same list and directory every
\* citation is reported 'exists' and no network call was made.
C3_Original ==
  (run = 2 /\ phase = "returned") =>
    \A i \in Submitted : Reported(i) = "exists" /\ net[i] = {}

\* C3 amended: in a second run over the same list and directory, every
\* citation the first run reported as 'success' or 'exists' is reported
\* 'exists', with no attempt and no network call made for it.
C3_Idempotent ==
  run >= 2 =>
    \A i \in Submitted :
      prev[i] \in {"success", "exists"} =>
        /\ fut[i] # "raised"
        /\ tried[i] = << >>
        /\ net[i] = {}
        /\ lim[i] = {}
        /\ fut[i] = "returned" => status[i] = "exists"

\* a second run has returned and reported 'exists' for a first-run success
C3_Witness ==
  /\ run = 2
  /\ phase = "returned"
  /\ \E i \in Submitted : prev[i] = "success" /\ status[i] = "exists"

Terminal == {"exists", "success", "failed", "error"}

\* C4 as stated: the status starts as 'pending' and, once it holds one of
\* exists, success, failed or error, never changes.
C4_Original ==
  [][\A i \in Refs :
       run' = run =>
         /\ status[i] = "none" => status'[i] \in {"none", "pending"}
         /\ status[i] = "pending" => status'[i] \in Terminal \cup {"pending"}
         /\ status[i] \in Terminal => status'[i] = status[i]]_vars

\* C4 amended: the status starts as 'failed' and changes at most once, to
\* one of exists, success or error; once it has been changed, or once
\* process_reference has returned, it is never changed again.
C4_StatusMonotonic ==
  [][\A i \in Refs :
       run' = run =>
         /\ status[i] = "none" => status'[i] \in {"none", "failed"}
         /\ status[i] = "failed" =>
              status'[i] \in {"failed", "exists", "success", "error"}
         /\ status[i] \in {"exists", "success", "error"} =>
              status'[i] = status[i]
         /\ fut[i] = "returned" => status'[i] = status[i]]_vars

\* an outcome whose status was changed, after its call returned and its
\* future was collected
C4_Witness ==
  \E i \in Refs :
    /\ status[i] \in {"success", "exists"}
    /\ fut[i] = "returned"
    /\ i \in collected

\* C5: a call that returns without success or 'exists' returns 'failed' with
\* the error text "No open access source found" and exactly one attempt per
\* enabled handler, in priority order, each unsuccessful.
C5_AllFailed ==
  \A i \in Refs :
    (fut[i] = "returned" /\ status[i] \notin {"success", "exists"}) =>
      /\ status[i] = "failed"
      /\ error[i] = "No open access source found"
      /\ Len(tried[i]) = Cardinality(enabled)
      /\ \A j \in 1..Len(tried[i]) :
           /\ tried[i][j].source_name \in enabled
           /\ Rank(tried[i][j].source_name) = j
           /\ ~tried[i][j].success

\* a call returned 'failed' after two or more handlers, one of which gave a
\* URL whose download failed
C5_Witness ==
  \E i \in Refs :
    /\ fut[i] = "returned"
    /\ status[i] = "failed"
    /\ Len(tried[i]) >= 2
    /\ \E j \in 1..Len(tried[i]) : tried[i][j].url

\* C6: when the completed transfer is under the minimum size, the step that
\* checks it removes the file, marks the attempt unsuccessful and moves the
\* loop to the next handler, the call neither returning nor raising.
C6_SmallFile ==
  [][\A i \in Refs :
       (pc[i] = "validate" /\ files[i] < min_pdf_size /\ pc'[i] # pc[i]) =>
          /\ files'[i] = NoFile
          /\ Len(tried'[i]) = Len(tried[i])
          /\ ~tried'[i][Len(tried[i])].success
          /\ pc'[i] = "loop"
          /\ pos'[i] = pos[i] + 1
          /\ fut'[i] = "running"
          /\ status'[i] = "failed"]_vars

\* an undersized transfer was followed by the call of the next handler
C6_Witness ==
  \E i \in Refs : \E j \in 1..Len(tried[i]) :
    /\ j < Len(tried[i])
    /\ tried[i][j].error = "FileNotFoundError"
    /\ files[i] = NoFile

\* C7 as stated: an exception raised while a citation is processed is caught
\* inside process_reference, which returns an outcome with status 'error'.
C7_CaughtAtBoundary ==
  \A i \in Refs :
    (pc[i] = "done" /\ refs[i] = "bad") =>
      (fut[i] = "returned" /\ status[i] = "error")

\* number of lines of the list that carry index i
RECURSIVE LinesFor(_, _)
LinesFor(lines, i) ==
  IF lines = << >> THEN 0
  ELSE (IF Head(lines).index = i THEN 1 ELSE 0) + LinesFor(Tail(lines), i)

\* C8: when download_references_parallel returns for a non-empty list, the
\* returned list holds exactly one status line for each submitted citation,
\* all ahead of the summary, whichever citations raised.
C8_OneLinePerCitation ==
  (phase = "returned" /\ nrefs > 0) =>
    /\ Len(results) = nrefs + 1
    /\ results[Len(results)].kind = "summary"
    /\ \A i \in Submitted : LinesFor(results, i) = 1
    /\ \A n \in 1..nrefs : results[n].index \in Submitted
    /\ \A n \in 1..nrefs :
         results[n].kind = "processing_error" <=> fut[results[n].index] = "raised"

\* a run returned in which one citation raised and another did not
C8_Witness ==
  /\ phase = "returned"
  /\ \E i, j \in Submitted : fut[i] = "raised" /\ fut[j] = "returned"

\* 1/rate seconds, in ticks
TokenPeriod == TicksPerSecond \div rate

\* C9: of the acquire calls that read the clock at the limiter's creation
\* time (a full bucket, no time elapsed), the first burst_size return without
\* sleeping and the next one sleeps for at least 1/rate seconds.
C9_BurstThenBlock ==
  /\ \A n \in 1..Len(log) :
       /\ (n <= burst_size /\ log[n].now = 0) => ~log[n].blocked
       /\ (n = burst_size + 1 /\ log[n].now = 0) =>
            (log[n].blocked /\ log[n].slept >= TokenPeriod)
  /\ \A t \in RLThreads :
       (rpc[t] = "sleep" /\ rnow[t] = 0 /\ Len(log) = burst_size) =>
          wake[t] >= TokenPeriod

\* the call after the burst has returned
C9_Witness ==
  /\ Len(log) >= burst_size + 1
  /\ log[burst_size + 1].now = 0
  /\ log[burst_size + 1].blocked

\* the callers between `with self.lock` and the end of acquire
InAcquire == {t \in RLThreads : rpc[t] \in {"refill", "sleep"}}

\* C10: at most one caller at a time is inside the refill/consume/wait
\* section of acquire, a sleeping caller included, and it holds the lock.
C10_MutualExclusion ==
  /\ Cardinality(InAcquire) <= 1
  /\ \A t \in InAcquire : lock = t

\* one caller sleeps inside acquire while another waits for the lock
C10_Witness ==
  \E t1, t2 \in RLThreads : rpc[t1] = "sleep" /\ rpc[t2] = "lock"

\* C11 as stated: every service reached over the network during a handler
\* invocation has had its rate limiter acquired in that invocation, for every
\* handler, every citation and every set of enabled services.
C11_RateLimited ==
  /\ \A i \in Refs : (net[i] \ {"download"}) \subseteq lim[i]
  /\ \A i \in Refs : \A api \in enabled :
       refs[i] # "unread" =>
         \A r \in CallHandler(api, extract_reference_info(refs[i]), enabled,
                              clients) :
           r.net \subseteq r.lim

\* C12 as stated: whatever the external service does during a handler
\* invocation (network error, HTTP error status, malformed response, missing
\* client), the attempt returned is unsuccessful and carries an error text.
C12_FailureCarriesError ==
  \A i \in Refs : \A api \in enabled :
    refs[i] # "unread" =>
      \A r \in CallHandler(api, extract_reference_info(refs[i]), enabled,
                           clients) :
        r.fault # "ok" => (~r.success /\ r.error # "")

\* C13: at every moment at most max_threads process_reference calls are
\* running; a call starts only for a task still queued, a task never returns
\* to the queue nor leaves its final state within a run, and when the run
\* returns every submitted citation (and no other) has been processed.
C13_BoundedPool ==
  /\ [](Cardinality(Running) <= max_threads)
  /\ [](\A i \in Refs :
          /\ i \notin Submitted => fut[i] = "absent"
          /\ (phase = "returned" /\ i \in Submitted) =>
               fut[i] \in {"returned", "raised"})
  /\ [][\A i \in Refs :
          run' = run =>
            /\ fut'[i] = "queued" => fut[i] = "queued"
            /\ (pc[i] = "create" /\ pc'[i] # "create") => fut[i] = "queued"
            /\ (fut[i] # "running" /\ fut'[i] = "running") => fut[i] = "queued"
            /\ fut[i] \in {"returned", "raised"} => fut'[i] = fut[i]]_vars

\* the pool is full while a submitted citation still waits in the queue
C13_Witness ==
  /\ Cardinality(Running) = max_threads
  /\ \E i \in Submitted : fut[i] = "queued"

\* C14: within one run, the filenames given to two different citations
\* differ, whatever their fields, and so do the paths of any two calls that
\* are running at the same time.
C14_DistinctFilenames ==
  \A i, j \in Refs :
    (i # j /\ filename[i] # << >> /\ filename[j] # << >>) =>
      filename[i] # filename[j]

\* two citations with identical fields are both being downloaded
C14_Witness ==
  \E i, j \in Submitted :
    /\ i # j
    /\ refs[i] = refs[j]
    /\ pc[i] = "validate"
    /\ pc[j] = "validate"

C16_StopStartsNothing ==
  [][\A i \in Refs :
       should_stop =>
         /\ fut[i] = "queued" => fut'[i] = "queued"
         /\ fut[i] = "running" => fut'[i] \in {"running", "returned", "raised"}]_vars

HeuristicPcs == {"heur_run", "heur_run_try"}

\* C17: an extract_references call runs the heuristic backend only when the
\* structured backend was not selected for it (force_method 'refextract', or
\* GROBID disabled and not forced), in which case it never calls the
\* structured backend, or after its structured attempt raised or gave no
\* record; the two backends are never at work together; and a call that got
\* records from its structured attempt never runs the heuristic backend and
\* keeps those records.
C17_OrderedFallback ==
  /\ Cardinality(running) <= 1
  /\ \A n \in 1..Len(stack) :
       LET f == stack[n] IN
         /\ f.pc # "start" =>
              (f.use_grobid <=>
                 ~(f.force = "refextract"
                   \/ (~grobid_enabled /\ f.force # "grobid")))
         /\ (f.pc # "start" /\ ~f.use_grobid) => f.got = "none"
         /\ (f.heur \/ f.pc \in HeuristicPcs) =>
              (~f.use_grobid \/ f.got \in {"raised", "empty"})
         /\ f.got = "records" =>
              (~f.heur /\ f.pc \in {"post", "returned"} /\ f.use_grobid)
         /\ f.pc \in HeuristicPcs => running = {"refextract"}
         /\ f.pc = "grobid_run" => running = {"grobid"}

\* the outermost call tried GROBID itself, got nothing, fell back and returned
\* the heuristic backend's citation
C17_Witness ==
  /\ Len(stack) = 1
  /\ stack[1].use_grobid
  /\ stack[1].got = "empty"
  /\ stack[1].heur
  /\ stack[1].pc = "returned"
  /\ stack[1].out # << >>
  /\ grobid_enabled /\ is_alive

\* the records got from r by giving one absent field a qualifying value
Upgrades(r) ==
  {[r EXCEPT !.title = t] : t \in IF r.title = << >> THEN {TitleMid, TitleLong}
                                  ELSE {}}
  \cup (IF r.authors = << >> THEN {[r EXCEPT !.authors = AuthorText]} ELSE {})
  \cup (IF r.journal = << >> THEN {[r EXCEPT !.journal = JournalText]} ELSE {})
  \cup (IF r.venue = << >> THEN {[r EXCEPT !.venue = VenueText]} ELSE {})
  \cup (IF r.year = << >> THEN {[r EXCEPT !.year = YearDigits]} ELSE {})
  \cup (IF r.doi = << >> THEN {[r EXCEPT !.doi = DoiGood]} ELSE {})
  \cup (IF r.arxiv_id = << >> THEN {[r EXCEPT !.arxiv_id = ArxivText]} ELSE {})

\* C18: the quality score of every citation lies between 0 and 1 (20
\* twentieths), the score computed while GROBID's answer is read included,
\* and giving one absent field a qualifying value never lowers it.
C18_ScoreBounded ==
  /\ calculate_quality_score(rec) \in 0..20
  /\ \A u \in Upgrades(rec) :
       /\ calculate_quality_score(u) \in 0..20
       /\ calculate_quality_score(u) >= calculate_quality_score(rec)
  /\ quality # -1 => quality \in 0..20

\* GROBID's answer held a citation with every field present, and was scored
C18_Witness ==
  /\ quality = 20
  /\ rec.title = TitleLong
  /\ rec.authors # << >>
  /\ rec.journal # << >>
  /\ rec.year = YearDigits
  /\ rec.doi # << >>
  /\ rec.arxiv_id # << >>

\* the condition of C19, on the fields of a citation
Acceptable(x) ==
  /\ \/ Len(x.title) >= min_title_length
     \/ Len(x.raw_reference) >= 20
     \/ x.doi # << >>
  /\ ~MatchesFalsePositive(x.title)

\* C19: the filter accepts a citation exactly when its title has at least
\* min_title_length characters, or its free text at least 20, or it has a
\* DOI, and its title matches no false-positive pattern; this holds of the
\* citation as the backend gave it and as post-processed, and of the answer
\* the filter gave inside extract_references.  The title "References" is
\* rejected, a DOI alone is accepted, a 5-character title alone is rejected.
C19_ValidityFilter ==
  /\ \A x \in {to_dict(rec), post_process_reference(to_dict(rec))} :
       is_valid_reference(x) <=> Acceptable(x)
  /\ filtered # << >> => (filtered[1].ok <=> Acceptable(filtered[1].ref))
  /\ filtered # << >> =>
       /\ filtered[1].ref.title = TitleHeader => ~filtered[1].ok
       /\ (filtered[1].ref.title = << >> /\ filtered[1].ref.doi = DoiGood
           /\ filtered[1].ref.raw_reference = << >>) => filtered[1].ok
       /\ (filtered[1].ref.title = TitleShort /\ filtered[1].ref.doi = << >>
           /\ Len(filtered[1].ref.raw_reference) < 20) => ~filtered[1].ok

\* extract_references filtered a citation that has a DOI and nothing else,
\* and kept it
C19_Witness ==
  /\ filtered # << >>
  /\ filtered[1].ref.title = << >>
  /\ filtered[1].ref.raw_reference = << >>
  /\ filtered[1].ref.doi = DoiGood
  /\ filtered[1].ok
  /\ stack[1].pc = "returned"
  /\ stack[1].out # << >>

\* the positions of results that hold the session summary
SummaryLines == {k \in 1..Len(results) : results[k].kind = "summary"}

\* C20: the session summary is produced at most once per run, and only when
\* every submitted citation has returned an outcome or raised and has had its
\* line collected; while the pool is still working on any citation results
\* holds no summary, and a finished run over a non-empty list ends with
\* exactly one summary, placed after every citation's line.
C20_SummaryOnceAtEnd ==
  /\ Cardinality(SummaryLines) <= 1
  /\ SummaryLines # {} =>
       /\ phase = "returned"
       /\ \A i \in Submitted : /\ fut[i] \in {"returned", "raised"}
                               /\ i \in collected
  /\ (phase = "returned" /\ nrefs > 0) => SummaryLines = {Len(results)}

\* a finished run over two citations, one downloaded and one not, whose
\* results end with the summary
C20_Witness ==
  /\ phase = "returned"
  /\ nrefs = NRefs
  /\ SummaryLines = {nrefs + 1}
  /\ \E i, j \in Submitted : /\ fut[i] = "returned" /\ status[i] = "success"
                             /\ status[j] # "success"

\* the citations of the run whose outcome is a success
Succeeded == {i \in Submitted : fut[i] = "returned" /\ status[i] = "success"}

RECURSIVE SumCounts(_, _)
SumCounts(counts, S) ==
  IF S = {} THEN 0
  ELSE LET a == CHOOSE x \in S : TRUE IN counts[a] + SumCounts(counts, S \ {a})

\* C21: when download_references_parallel has returned, in whatever order
\* the futures were collected, successful_downloads is the number of
\* outcomes with status 'success', each service's entry of sources_used is
\* the number of successes it won, and the entries sum to successful_downloads.
C21_AggregatesMatchOutcomes ==
  (phase = "returned" /\ nrefs > 0) =>
    /\ successful_downloads = Cardinality(Succeeded)
    /\ \A a \in ApiNames :
         sources_used[a] = Cardinality({i \in Succeeded : source[i] = a})
    /\ SumCounts(sources_used, ApiNames) = successful_downloads

\* a finished run of two citations, the second collected before the first,
\* one of them a success
C21_Witness ==
  /\ phase = "returned"
  /\ nrefs = NRefs
  /\ Len(results) = nrefs + 1
  /\ results[1].index > results[2].index
  /\ Succeeded # {}
  /\ Succeeded # Submitted

\* d is empty or reads 10.<digits>/...
EmptyOrTenDotDigitsSlash(d) ==
  \/ d = << >>
  \/ /\ Len(d) >= 5
     /\ SubSeq(d, 1, 3) = <<"1", "0", ".">>
     /\ \E n \in 5..Len(d) :
          /\ d[n] = "/"
          /\ \A m \in 4..(n - 1) : d[m] \in DigitChars

\* C22: the DOI of every record _extract_reference_info returns, and of
\* every record _post_process_reference returns, is empty or matches
\* 10.<digits>/..., whatever the raw DOI text was.
C22_DoiEmptyOrValid ==
  /\ norm_info # << >> => EmptyOrTenDotDigitsSlash(norm_info[1].doi)
  /\ processed # << >> => EmptyOrTenDotDigitsSlash(processed[1].doi)

\* a DOI behind a resolver URL with a trailing full stop, brought to its bare
\* form by both functions
C22_Witness ==
  /\ cite.doi = DoiDxDot
  /\ norm_info # << >> /\ norm_info[1].doi = DoiGood
  /\ processed # << >> /\ processed[1].doi = DoiGood

\* C23: whenever process_reference has returned status 'failed' or has
\* raised, it has left no file at the citation's target path (the path held
\* no file when the call began, or the call would have answered 'exists').
C23_NoFileOnFailure ==
  \A i \in Submitted :
    (/\ file0[i] = NoFile
     /\ \/ fut[i] = "raised"
        \/ fut[i] = "returned" /\ status[i] = "failed") => files[i] = NoFile

\* the acquire calls that returned at a time within [s, e]
ReturnedWithin(s, e) == {n \in 1..Len(log) : s <= log[n].ret /\ log[n].ret <= e}

\* C24: in every time window the number of acquire calls that return is at
\* most burst_size + rate * (length of the window); both sides are counted
\* in units of 1/TicksPerSecond token, the window in ticks.
C24_WindowBound ==
  \A s \in 0..MaxTime : \A e \in s..MaxTime :
    Cardinality(ReturnedWithin(s, e)) * OneToken
      <= burst_size * OneToken + rate * (e - s)

\* C25: an extract_references call entered through the fallback of
\* extract_references_grobid (any call below the outermost one) never selects
\* the structured backend again, so one extraction makes at most one
\* structured attempt.
C25_NoStructuredReentry ==
  \A n \in 2..Len(stack) : ~stack[n].use_grobid

\* C26: whenever process_reference has returned status 'success', the last
\* attempt of sources_tried is the winning service's, it is successful and
\* carries the URL the outcome records, every earlier attempt is
\* unsuccessful, and the file at the target path has at least min_pdf_size
\* bytes.
C26_SuccessShape ==
  \A i \in Submitted :
    (fut[i] = "returned" /\ status[i] = "success") =>
      /\ tried[i] # << >>
      /\ LET last == tried[i][Len(tried[i])] IN
           /\ last.source_name = source[i]
           /\ last.success
           /\ last.url /\ url[i]
      /\ \A n \in 1..(Len(tried[i]) - 1) : ~tried[i][n].success
      /\ files[i] # NoFile /\ files[i] >= min_pdf_size

\* a success won by the second service tried, after the first one's download
\* failed
C26_Witness ==
  \E i \in Submitted :
    /\ fut[i] = "returned" /\ status[i] = "success"
    /\ Len(tried[i]) = 2
    /\ tried[i][1].url
    /\ tried[i][1].source_name # source[i]

\* C27: every acquire call eventually returns (also the one waiting for the
\* lock while another worker sleeps inside acquire), every submitted citation
\* eventually has a terminal outcome or has raised, and
\* download_references_parallel eventually returns.
C27_EverythingTerminates ==
  /\ \A t \in RLThreads : (rpc[t] # "idle") ~> (rpc[t] = "idle")
  /\ \A i \in Refs : (fut[i] = "queued") ~> (fut[i] \in {"returned", "raised"})
  /\ <>(phase = "returned")

\* a worker waits for the lock while another sleeps inside acquire
C27_Witness ==
  \E t, u \in Refs \cap RLThreads :
    /\ rpc[t] = "sleep" /\ lock = t
    /\ rpc[u] = "lock"

\* C28 as stated: within a run, no field of an attempt already in
\* sources_tried is ever changed.
C28_Original ==
  [][\A i \in Refs :
       run' = run =>
         \A n \in 1..Len(tried[i]) :
           Len(tried'[i]) >= n /\ tried'[i][n] = tried[i][n]]_vars

\* C28: within a run an attempt already in sources_tried is never removed,
\* and its service name and candidate URL never change; the only change made
\* to it is to the last attempt while its candidate URL is being downloaded:
\* when that download fails, its success flag goes from True to False and
\* its error text is set.
C28_AttemptsFrozen ==
  [][\A i \in Refs :
       run' = run =>
         \A n \in 1..Len(tried[i]) :
           /\ Len(tried'[i]) >= n
           /\ \/ tried'[i][n] = tried[i][n]
              \/ /\ n = Len(tried[i])
                 /\ pc[i] \in {"download", "validate"}
                 /\ tried[i][n].success
                 /\ tried'[i][n] = [tried[i][n] EXCEPT
                                      !.success = FALSE,
                                      !.error = tried'[i][n].error]]_vars

\* an attempt rewritten after it was appended: it still carries its candidate
\* URL, is marked unsuccessful and holds the download's exception
C28_Witness ==
  \E i \in Submitted : \E n \in 1..Len(tried[i]) :
    /\ tried[i][n].url
    /\ ~tried[i][n].success
    /\ tried[i][n].error \in {"HTTPError", "ConnectionError",
                              "FileNotFoundError"}

Capped(n) == IF n < 20 THEN n ELSE 20

\* the score as C29 states it, in twentieths: 0.4 for a title, 0.1 more when
\* it is longer than 20 characters, 0.2 for authors, 0.1 for a journal or
\* venue, 0.1 for an all-digit year, 0.2 for a valid DOI, 0.15 for an arXiv id
StatedScore(r) ==
  Capped((IF r.title # << >> THEN 8 ELSE 0)
         + (IF Len(r.title) > 20 THEN 2 ELSE 0)
         + (IF r.authors # << >> THEN 4 ELSE 0)
         + (IF r.journal # << >> \/ r.venue # << >> THEN 2 ELSE 0)
         + (IF IsDigits(r.year) THEN 2 ELSE 0)
         + (IF EmptyOrTenDotDigitsSlash(r.doi) /\ r.doi # << >> THEN 4 ELSE 0)
         + (IF r.arxiv_id # << >> THEN 3 ELSE 0))

\* C29 as stated: the score of every citation is StatedScore.
C29_Original ==
  /\ calculate_quality_score(rec) = StatedScore(rec)
  /\ quality # -1 => quality = StatedScore(rec)

\* the same sum with the title counted only when it is longer than 10
\* characters and the DOI counted whenever it is not empty
ThresholdScore(r) ==
  Capped((IF Len(r.title) > 10 THEN 8 ELSE 0)
         + (IF Len(r.title) > 20 THEN 2 ELSE 0)
         + (IF r.authors # << >> THEN 4 ELSE 0)
         + (IF r.journal # << >> \/ r.venue # << >> THEN 2 ELSE 0)
         + (IF IsDigits(r.year) THEN 2 ELSE 0)
         + (IF r.doi # << >> THEN 4 ELSE 0)
         + (IF r.arxiv_id # << >> THEN 3 ELSE 0))

\* C29: for every combination of fields the score is min(1.0, sum) where a
\* title longer than 10 characters gives 0.4, a title longer than 20
\* characters 0.1 more, any author 0.2, a journal or venue 0.1, an all-digit
\* year 0.1, a non-empty DOI 0.2 and an arXiv id 0.15.
C29_ScoreFormula ==
  /\ calculate_quality_score(rec) = ThresholdScore(rec)
  /\ quality # -1 => quality = ThresholdScore(rec)

\* GROBID's answer held a citation with a five-character title and an
\* author, and it was scored 0.2: the title added nothing
C29_Witness ==
  /\ quality = 4
  /\ rec.title = TitleShort
  /\ rec.authors # << >>
  /\ rec.doi = << >>

HexDigits == DigitChars \cup {"a", "b", "c", "d", "e", "f"}

\* name begins with "ref_", the index on at least three places and "_"
KeepsPrefix(name, index) ==
  LET pre == <<"r", "e", "f", "_">> \o Pad3(index) \o <<"_">>
  IN  Len(name) >= Len(pre) /\ SubSeq(name, 1, Len(pre)) = pre

\* name ends with "_", eight hexadecimal digits and ".pdf"
KeepsSuffix(name) ==
  /\ Len(name) >= 13
  /\ LET tail == SubSeq(name, Len(name) - 12, Len(name))
     IN  /\ tail[1] = "_"
         /\ \A j \in 2..9 : tail[j] \in HexDigits
         /\ SubSeq(tail, 10, 13) = <<".", "p", "d", "f">>

\* C30: whatever the title, the index and the configured maximum, the
\* generated filename is no longer than the configured maximum, and it begins
\* with "ref_<index>_" and ends with "_<8 hex digits>.pdf".
C30_WithinMaximum ==
  fname # << >> =>
    /\ Len(fname) <= max_len
    /\ KeepsPrefix(fname, cite_index)
    /\ KeepsSuffix(fname)

====
